---- MODULE Spec2Model ----
(***************************************************************************)
(* Torr: a 3D scene exposed as a tool-callable service.                    *)
(*                                                                         *)
(*   - blender_bridge.py : the scene backend process (snapshot store, id   *)
(*     allocation, diff, batch mutation engine, JSONL request loop)        *)
(*   - ui_bridge_tcp.py  : the socket peer's request handler               *)
(*   - server/mcp_server.py : the Session Gateway request loop             *)
(*                                                                         *)
(* Numbers (coordinates) are integers counting units of                    *)
(* 10^-(ROUND_DECIMALS+1), so that rounding to ROUND_DECIMALS decimals is  *)
(* rounding to a multiple of ten: 0.45 is 450000, 1.0 is 1000000.          *)
(***************************************************************************)
EXTENDS Integers, Sequences, FiniteSets, TLC

VARIABLES
    objects,            \* bpy.data.objects of the scene, in link order
    collections,        \* names in bpy.data.collections
    _snapshot_counter,  \* blender_bridge._snapshot_counter
    _snapshots,         \* blender_bridge._snapshots : id -> snapshot
    b_pc,               \* bridge main loop: "loop" | "exited"
    b_lines,            \* number of stdin lines the bridge has read
    issued,             \* history: snapshot ids in issuance order
    b_last,             \* history: the last line handled and what it wrote
    diff_log,           \* history: every world.observe_diff call and its result
    sc_step,            \* history: how many steps of the end-to-end scenario the
                        \* lines read so far are (-1: they are not the scenario)
    proc,               \* HeadlessBlenderProvider._proc: "alive" | "exited"
                        \* (poll() sees it ended) | "broken" (its stdin is closed) |
                        \* "unready" (running, its first line was rejected) | "none"
    prev_ids,           \* history: ids issued by children the provider has replaced
    p_calls,            \* number of HeadlessBlenderProvider.call calls made
    p_last,             \* history: the last call, its outcome, whether it restarted
    _snap_i,            \* UiTcpBlenderProvider._snap_i
    u_conns,            \* number of connections the socket provider has opened
    u_ids,              \* history: the ids the socket provider injected, in order
    u_calls,            \* number of UiTcpBlenderProvider.call calls made
    u_last,             \* history: the last call, the peer's reply and the result
    ui_pc,              \* ui_bridge_tcp: "serving" | "off"
    ui_objects,         \* bpy.data.objects of the UI Blender the socket peer runs in
    ui_last,            \* history: the last request the socket peer handled, and its reply
    gw_pc,              \* gateway main loop: "loop" | "stopped"
    initialized,        \* mcp_server.main: initialized
    negotiated_protocol,\* mcp_server.main: negotiated_protocol
    gw_in,              \* history: the id of each line the gateway has read
    gw_out,             \* history: the envelopes written, in order (summaries)
    gw_last,            \* history: the last line read and what it made main write
    t_pc,               \* each thread's position in HeadlessBlenderProvider.call
    t_lock,             \* HeadlessBlenderProvider._lock: the thread holding it, or 0
    t_sent,             \* history: the pieces of request lines written to the child's stdin
    t_read,             \* how many of those pieces the child has read
    t_replies,          \* the lines on the child's stdout not read yet
    t_got,              \* history: the replies each thread's calls have read
    t_done,             \* the number of calls each thread has finished
    t_raised            \* history: the numbers of each thread's calls that raised

bridge_vars == <<objects, collections, _snapshot_counter, _snapshots, b_pc, b_lines, issued, b_last,
                 diff_log, sc_step>>
ui_vars == <<ui_pc, ui_objects, ui_last>>
gw_vars == <<gw_pc, initialized, negotiated_protocol, gw_in, gw_out, gw_last>>
sup_vars == <<proc, prev_ids, p_calls, p_last>>
prov_vars == <<_snap_i, u_conns, u_ids, u_calls, u_last>>
thr_vars == <<t_pc, t_lock, t_sent, t_read, t_replies, t_got, t_done, t_raised>>
vars == <<objects, collections, _snapshot_counter, _snapshots, b_pc, b_lines, issued, b_last,
          diff_log, sc_step,
          ui_pc, ui_objects, ui_last,
          gw_pc, initialized, negotiated_protocol, gw_in, gw_out, gw_last,
          proc, prev_ids, p_calls, p_last,
          _snap_i, u_conns, u_ids, u_calls, u_last,
          t_pc, t_lock, t_sent, t_read, t_replies, t_got, t_done, t_raised>>

(***************************************************************************)
(* Bounds of the model.                                                    *)
(***************************************************************************)
MaxBatch == 2       \* longest batch drawn for world.mutate in SpecMutate
MaxBridgeLines == 5 \* stdin lines one bridge run reads in SpecBridge
MaxGwLines == 3     \* request lines one gateway run reads in SpecGateway

(***************************************************************************)
(* Program constants (blender_bridge.py).                                  *)
(***************************************************************************)
SNAPSHOT_VERSION == "1.2"
DIFF_VERSION == "1.1"
DSL_VERSION == "1.0"
ROUND_DECIMALS == 5

MasterCollection == "Scene Collection"

(***************************************************************************)
(* Small helpers for JSON-like values.                                     *)
(***************************************************************************)
Get(d, k, default) == IF k \in DOMAIN d THEN d[k] ELSE default

Range(s) == {s[i] : i \in DOMAIN s}

RECURSIVE SeqFilterOut(_, _)
SeqFilterOut(s, name) ==
    IF s = <<>> THEN <<>>
    ELSE IF Head(s).name = name THEN SeqFilterOut(Tail(s), name)
    ELSE <<Head(s)>> \o SeqFilterOut(Tail(s), name)

\* round(float(x), ROUND_DECIMALS): to the nearest multiple of ten units,
\* ties to even.
_r(x) ==
    LET q == x \div 10
        m == x % 10
    IN  IF m < 5 THEN 10 * q
        ELSE IF m > 5 THEN 10 * (q + 1)
        ELSE IF q % 2 = 0 THEN 10 * q ELSE 10 * (q + 1)

_vec3(v) == <<_r(v[1]), _r(v[2]), _r(v[3])>>

\* f"S{_snapshot_counter}"
SnapId(n) == "S" \o ToString(n)

(***************************************************************************)
(* The scene engine (bpy) as the bridge uses it.  A world is               *)
(* [objects |-> sequence of object records, collections |-> set of names]. *)
(***************************************************************************)
ObjNames(objs) == {objs[i].name : i \in DOMAIN objs}

\* bpy.data.objects.get(str(name)): the index of the object, 0 for None.
_find_object(objs, name) ==
    IF name \in ObjNames(objs)
    THEN CHOOSE i \in DOMAIN objs : objs[i].name = name
    ELSE 0

Suffix(k) == "." \o (IF k < 10 THEN "00" ELSE "0") \o ToString(k)

RECURSIVE FreeName(_, _, _)
FreeName(name, used, k) ==
    IF (name \o Suffix(k)) \notin used THEN name \o Suffix(k)
    ELSE FreeName(name, used, k + 1)

\* bpy.data.objects.new(name, mesh) keeps datablock names unique: a taken
\* name gets the first free numeric suffix.
UniqueName(name, used) == IF name \notin used THEN name ELSE FreeName(name, used, 1)

NewObject(name) ==
    [name |-> name, type |-> "MESH",
     location |-> <<0, 0, 0>>, rotation_euler |-> <<0, 0, 0>>,
     scale |-> <<1000000, 1000000, 1000000>>, cols |-> {}]

\* v.x = float(l[0]); v.y = float(l[1]); v.z = float(l[2]) : the components
\* are assigned one after the other, so a list that is too short has set
\* the leading components when l[i] raises IndexError.
AssignXYZ(v, l) == [i \in 1..3 |-> IF i <= Len(l) THEN l[i] ELSE v[i]]

TooShort(l) == Len(l) < 3

\* str(...).lower() on the primitive type names the model draws.
Lower(s) == IF s \in {"Cube", "CUBE"} THEN "cube" ELSE s

\* _ensure_collection: creates the collection when it does not exist.
_ensure_collection(w, name) == [w EXCEPT !.collections = @ \cup {name}]

\* _link_object_to_collection on the object at index i.
_link_object_to_collection(w, i, col) ==
    [w EXCEPT !.objects[i].cols = @ \cup {col}]

\* obj.users_collection[0].name: bpy lists the data collections that hold
\* the object (bpy.data.collections is kept sorted by name) before the
\* scene's master collection.  CollRank gives the sort position.
CollOrder == <<"C", "D">>

CollRank(c) == CHOOSE i \in DOMAIN CollOrder : CollOrder[i] = c

FirstCollection(o) ==
    IF o.cols = {} THEN MasterCollection
    ELSE CHOOSE c \in o.cols : \A d \in o.cols : CollRank(c) <= CollRank(d)

(***************************************************************************)
(* One outcome of an op handler: the world it leaves, and whether it       *)
(* returned ok, returned ok=False ("fail"), or raised ("raise").           *)
(***************************************************************************)
Outcome(w, r, error) == [w |-> w, r |-> r, error |-> error]

_dsl_object_create_primitive(w, args) ==
    LET prim_type == Lower(Get(args, "type", "cube"))
        name == Get(args, "name", "Object")
        location == Get(args, "location", <<0, 0, 0>>)
        collection == Get(args, "collection", "")
        uname == UniqueName(name, ObjNames(w.objects))
        \* try: location x, y, z ... except Exception: pass
        obj == [NewObject(uname) EXCEPT !.location = AssignXYZ(@, location)]
        w1 == [w EXCEPT !.objects = Append(@, obj)]
        w2 == IF collection # ""
              THEN _link_object_to_collection(_ensure_collection(w1, collection),
                                              Len(w1.objects), collection)
              ELSE w1
    IN  IF prim_type \notin {"cube"}
        THEN Outcome(w, "fail", "primitive type not supported in v1: " \o prim_type)
        ELSE Outcome(w2, "ok", "")

\* _dsl_object_set_transform as it would be if the fields absent from args
\* were set to zero
_dsl_object_set_transform_resets(w, args) ==
    LET name == Get(args, "name", "")
        i == _find_object(w.objects, name)
        zero == <<0, 0, 0>>
        wl == [w EXCEPT !.objects[i].location =
                           AssignXYZ(@, IF "location" \in DOMAIN args
                                        THEN args.location ELSE zero)]
        wr == [wl EXCEPT !.objects[i].rotation_euler =
                            AssignXYZ(@, IF "rotation_euler" \in DOMAIN args
                                         THEN args.rotation_euler ELSE zero)]
        ws == [wr EXCEPT !.objects[i].scale =
                            AssignXYZ(@, IF "scale" \in DOMAIN args
                                         THEN args.scale ELSE zero)]
    IN  IF i = 0 THEN Outcome(w, "fail", "object not found: " \o name)
        ELSE Outcome(ws, "ok", "")

_dsl_object_set_transform(w, args) ==
    LET name == Get(args, "name", "")
        i == _find_object(w.objects, name)
        hasL == "location" \in DOMAIN args
        hasR == "rotation_euler" \in DOMAIN args
        hasS == "scale" \in DOMAIN args
        wl == IF hasL THEN [w EXCEPT !.objects[i].location = AssignXYZ(@, args.location)] ELSE w
        wr == IF hasR THEN [wl EXCEPT !.objects[i].rotation_euler = AssignXYZ(@, args.rotation_euler)] ELSE wl
        ws == IF hasS THEN [wr EXCEPT !.objects[i].scale = AssignXYZ(@, args.scale)] ELSE wr
    IN  IF i = 0 THEN Outcome(w, "fail", "object not found: " \o name)
        ELSE IF hasL /\ TooShort(args.location) THEN Outcome(wl, "raise", "IndexError")
        ELSE IF hasR /\ TooShort(args.rotation_euler) THEN Outcome(wr, "raise", "IndexError")
        ELSE IF hasS /\ TooShort(args.scale) THEN Outcome(ws, "raise", "IndexError")
        ELSE Outcome(ws, "ok", "")

_dsl_object_delete(w, args) ==
    LET name == Get(args, "name", "")
        i == _find_object(w.objects, name)
    IN  IF i = 0 THEN Outcome(w, "fail", "object not found: " \o name)
        ELSE Outcome([w EXCEPT !.objects = SeqFilterOut(@, name)], "ok", "")

_dsl_collection_create(w, args) ==
    LET name == Get(args, "name", "")
    IN  IF name = "" THEN Outcome(w, "fail", "collection name required")
        ELSE Outcome(_ensure_collection(w, name), "ok", "")

_dsl_collection_link_object(w, args) ==
    LET col_name == Get(args, "collection", "")
        obj_name == Get(args, "object", "")
        w1 == _ensure_collection(w, col_name)
        i == _find_object(w.objects, obj_name)
    IN  IF col_name = "" \/ obj_name = "" THEN Outcome(w, "fail", "collection and object required")
        ELSE IF i = 0 THEN Outcome(w1, "fail", "object not found: " \o obj_name)
        ELSE Outcome(_link_object_to_collection(w1, i, col_name), "ok", "")

(***************************************************************************)
(* world_mutate's loop body for one item that is a mapping:                *)
(* item = [dict, op, argsdict, args].  args that are not a mapping make    *)
(* the handler's first args.get raise AttributeError.                      *)
(***************************************************************************)
KnownOps ==
    {"object.create_primitive", "object.set_transform", "object.delete",
     "collection.create", "collection.link_object"}

DispatchOp(w, item) ==
    IF item.op \notin KnownOps THEN Outcome(w, "fail", "op not supported in v3")
    ELSE IF ~item.argsdict THEN Outcome(w, "raise", "AttributeError")
    ELSE IF item.op = "object.create_primitive" THEN _dsl_object_create_primitive(w, item.args)
    ELSE IF item.op = "object.set_transform" THEN _dsl_object_set_transform(w, item.args)
    ELSE IF item.op = "object.delete" THEN _dsl_object_delete(w, item.args)
    ELSE IF item.op = "collection.create" THEN _dsl_collection_create(w, item.args)
    ELSE _dsl_collection_link_object(w, item.args)


(***************************************************************************)
(* Snapshots.                                                              *)
(***************************************************************************)
Observed(o) ==
    [name |-> o.name, type |-> o.type,
     location |-> _vec3(o.location),
     rotation_euler |-> _vec3(o.rotation_euler),
     scale |-> _vec3(o.scale),
     collection |-> FirstCollection(o)]

world_observe_compact(w, snapshot_id) ==
    [snapshot_version |-> SNAPSHOT_VERSION,
     snapshot_id |-> snapshot_id,
     scene |-> [name |-> "Scene", frame |-> 1, frame_range |-> <<1, 250>>],
     objects |-> [i \in DOMAIN w.objects |-> Observed(w.objects[i])],
     summary_text |-> Len(w.objects)]

\* _next_snapshot_id: the new value of _snapshot_counter; the id it returns
\* is SnapId of that value.
_next_snapshot_id(counter) == counter + 1

\* _snapshots[sid] = snap
Store(snaps, sid, snap) ==
    [x \in DOMAIN snaps \cup {sid} |-> IF x = sid THEN snap ELSE snaps[x]]

\* bootstrap_clean_scene: removes every object, and nothing else.
bootstrap_clean_scene(w) == [w EXCEPT !.objects = <<>>]

(***************************************************************************)
(* A bridge state is st = [w, counter, snapshots].  A response line is a   *)
(* record of every field a response may carry, with keys naming the ones   *)
(* this response does carry.                                               *)
(***************************************************************************)
BaseResp ==
    [keys |-> {}, ok |-> FALSE, error |-> "", seed |-> 0, snapshot_id |-> "",
     object_count |-> 0, objects |-> <<>>, applied |-> 0, errors |-> <<>>,
     from |-> "", to |-> "", objects_added |-> <<>>, objects_removed |-> <<>>,
     transforms_changed |-> <<>>, collections_changed |-> <<>>,
     count_from |-> 0, count_to |-> 0]

ErrorResp(msg) == [BaseResp EXCEPT !.keys = {"ok", "error"}, !.ok = FALSE, !.error = msg]

\* What a handler did: the bridge state it leaves, the line it returns (or
\* the exception it raised), the ids it allocated and the batch indices
\* whose loop iteration it began.
Done(st, resp, newids, attempted) ==
    [st |-> st, resp |-> resp, raised |-> "", newids |-> newids, attempted |-> attempted]

Raised(st, ex, newids, attempted) ==
    [st |-> st, resp |-> BaseResp, raised |-> ex, newids |-> newids, attempted |-> attempted]

\* world_reset as it would be if a reset emptied the snapshot store
world_reset_clears_store(st, seed) ==
    LET w1 == bootstrap_clean_scene(st.w)
        c1 == _next_snapshot_id(st.counter)
        sid == SnapId(c1)
        snap == world_observe_compact(w1, sid)
    IN  Done([w |-> w1, counter |-> c1, snapshots |-> Store(<<>>, sid, snap)],
             [BaseResp EXCEPT !.keys = {"ok", "seed", "snapshot_id", "object_count"},
                              !.ok = TRUE, !.seed = seed, !.snapshot_id = sid,
                              !.object_count = 0],
             <<sid>>, <<>>)

\* world_reset as it would be if a reset restarted the id sequence
world_reset_restart(st, seed) ==
    LET w1 == bootstrap_clean_scene(st.w)
        sid == SnapId(1)
        snap == world_observe_compact(w1, sid)
    IN  Done([w |-> w1, counter |-> 1, snapshots |-> Store(st.snapshots, sid, snap)],
             [BaseResp EXCEPT !.keys = {"ok", "seed", "snapshot_id", "object_count"},
                              !.ok = TRUE, !.seed = seed, !.snapshot_id = sid,
                              !.object_count = 0],
             <<sid>>, <<>>)

world_reset(st, seed) ==
    LET w1 == bootstrap_clean_scene(st.w)
        c1 == _next_snapshot_id(st.counter)
        sid == SnapId(c1)
        snap == world_observe_compact(w1, sid)
    IN  Done([w |-> w1, counter |-> c1, snapshots |-> Store(st.snapshots, sid, snap)],
             [BaseResp EXCEPT !.keys = {"ok", "seed", "snapshot_id", "object_count"},
                              !.ok = TRUE, !.seed = seed, !.snapshot_id = sid,
                              !.object_count = 0],
             <<sid>>, <<>>)

\* main's world.observe branch.
world_observe(st) ==
    LET c1 == _next_snapshot_id(st.counter)
        sid == SnapId(c1)
        snap == world_observe_compact(st.w, sid)
    IN  Done([st EXCEPT !.counter = c1, !.snapshots = Store(st.snapshots, sid, snap)],
             [BaseResp EXCEPT !.keys = {"snapshot_version", "snapshot_id", "scene",
                                        "objects", "summary_text"},
                              !.snapshot_id = sid, !.objects = snap.objects,
                              !.object_count = snap.summary_text],
             <<sid>>, <<>>)

(***************************************************************************)
(* world_mutate.  The loop reads item.get("op") and item.get("args")       *)
(* before its try block: an item that is not a mapping raises              *)
(* AttributeError out of the loop and out of world_mutate.                 *)
(***************************************************************************)
\* the loop body after the op handler returned or raised: r.get("ok")
\* counts the op as applied, anything else appends to errors
AfterOp(acc, i, op, o) ==
    [acc EXCEPT
       !.w = o.w,
       !.attempted = Append(@, i - 1),
       !.applied = IF o.r = "ok" THEN @ + 1 ELSE @,
       !.errors = IF o.r = "ok" THEN @
                  ELSE Append(@, [index |-> i - 1, op |-> op, error |-> o.error])]

RECURSIVE RunBatch(_, _, _)
RunBatch(batch, i, acc) ==
    IF i > Len(batch) \/ acc.raised # "" THEN acc
    ELSE IF ~batch[i].dict
    THEN [acc EXCEPT !.attempted = Append(@, i - 1), !.raised = "AttributeError"]
    ELSE CHOOSE res \in
            {RunBatch(batch, i + 1, nxt) :
                nxt \in {AfterOp(acc, i, batch[i].op, o) :
                            o \in {DispatchOp(acc.w, batch[i])}}} : TRUE

\* FinishMutate as it would be if ok reported that some op was applied
FinishMutateOkIfApplied(st, acc) ==
    LET c1 == _next_snapshot_id(st.counter)
        sid == SnapId(c1)
        snap == world_observe_compact(acc.w, sid)
    IN  IF acc.raised # ""
        THEN Raised([st EXCEPT !.w = acc.w], acc.raised, <<>>, acc.attempted)
        ELSE Done([w |-> acc.w, counter |-> c1,
                   snapshots |-> Store(st.snapshots, sid, snap)],
                  [BaseResp EXCEPT
                     !.keys = {"ok", "dsl_version", "applied", "errors", "warnings",
                               "snapshot_id"},
                     !.ok = (acc.applied > 0), !.applied = acc.applied,
                     !.errors = acc.errors, !.snapshot_id = sid],
                  <<sid>>, acc.attempted)

\* world_mutate after its loop: the snapshot and the result
FinishMutate(st, acc) ==
    LET c1 == _next_snapshot_id(st.counter)
        sid == SnapId(c1)
        snap == world_observe_compact(acc.w, sid)
    IN  IF acc.raised # ""
        THEN Raised([st EXCEPT !.w = acc.w], acc.raised, <<>>, acc.attempted)
        ELSE Done([w |-> acc.w, counter |-> c1,
                   snapshots |-> Store(st.snapshots, sid, snap)],
                  [BaseResp EXCEPT
                     !.keys = {"ok", "dsl_version", "applied", "errors", "warnings",
                               "snapshot_id"},
                     !.ok = (Len(acc.errors) = 0), !.applied = acc.applied,
                     !.errors = acc.errors, !.snapshot_id = sid],
                  <<sid>>, acc.attempted)

world_mutate(st, dsl_version, batch) ==
    IF dsl_version # DSL_VERSION
    THEN Done(st, [BaseResp EXCEPT !.keys = {"ok", "error", "supported"}, !.ok = FALSE,
                                   !.error = "unsupported dsl_version " \o dsl_version],
              <<>>, <<>>)
    ELSE CHOOSE h \in
            {FinishMutate(st, acc) :
                acc \in {RunBatch(batch, 1, [w |-> st.w, applied |-> 0, errors |-> <<>>,
                                             attempted |-> <<>>, raised |-> ""])}} : TRUE

(***************************************************************************)
(* world_observe_diff.  sorted() orders names by code point; NameOrder is  *)
(* that order on the names the model can create.                           *)
(***************************************************************************)
BaseOrder == <<"A", "B", "Object", "Seat">>

SuffixRange == MaxBridgeLines * (MaxBatch + 1)

RECURSIVE WithSuffixes(_, _)
WithSuffixes(name, k) ==
    IF k > SuffixRange THEN <<>> ELSE <<name \o Suffix(k)>> \o WithSuffixes(name, k + 1)

RECURSIVE NamesFrom(_)
NamesFrom(i) ==
    IF i > Len(BaseOrder) THEN <<>>
    ELSE <<BaseOrder[i]>> \o WithSuffixes(BaseOrder[i], 1) \o NamesFrom(i + 1)

NameOrder == NamesFrom(1)

\* the place of each name in NameOrder
NameRank ==
    [n \in {NameOrder[i] : i \in DOMAIN NameOrder} |->
        CHOOSE i \in DOMAIN NameOrder : NameOrder[i] = n]

\* sorted(S): the names of S in NameOrder
RECURSIVE Sorted(_)
Sorted(S) ==
    IF S = {} THEN <<>>
    ELSE CHOOSE r \in {<<m>> \o Sorted(S \ {m}) :
                         m \in {x \in S : \A y \in S : NameRank[x] <= NameRank[y]}} : TRUE

\* _obj_map: name -> record (a later record of the same name wins).
_obj_map(snap) ==
    [n \in {snap.objects[i].name : i \in DOMAIN snap.objects} |->
        snap.objects[CHOOSE i \in DOMAIN snap.objects :
                        /\ snap.objects[i].name = n
                        /\ \A j \in DOMAIN snap.objects :
                              snap.objects[j].name = n => j <= i]]

_transform_tuple(o) == <<o.location, o.rotation_euler, o.scale>>

\* the result for an id that is not in the store, as it would be if it
\* carried empty diff lists
UnknownSnapshotWithLists(from_id, to_id) ==
    [BaseResp EXCEPT !.keys = {"ok", "diff_version", "error", "from", "to",
                               "objects_added", "objects_removed",
                               "transforms_changed", "collections_changed"},
                     !.ok = FALSE, !.error = "unknown snapshot_id",
                     !.from = from_id, !.to = to_id]

\* the result for an id that is not in the store
UnknownSnapshot(from_id, to_id) ==
    [BaseResp EXCEPT !.keys = {"ok", "diff_version", "error", "from", "to"},
                     !.ok = FALSE, !.error = "unknown snapshot_id",
                     !.from = from_id, !.to = to_id]

\* added, as it would be if it listed every object of the to side
AddedAll(a_objs, b_objs) == Sorted(DOMAIN b_objs)

\* added = sorted([k for k in b_objs.keys() if k not in a_objs])
Added(a_objs, b_objs) == Sorted(DOMAIN b_objs \ DOMAIN a_objs)

\* removed = sorted([k for k in a_objs.keys() if k not in b_objs])
Removed(a_objs, b_objs) == Sorted(DOMAIN a_objs \ DOMAIN b_objs)

\* the names whose transform differs, as they would be if the from side's
\* location were compared with the to side's scale
TransformsChangedMixed(a_objs, b_objs) ==
    SelectSeq(Sorted(DOMAIN a_objs \cap DOMAIN b_objs),
              LAMBDA k : a_objs[k].location # b_objs[k].scale)

\* the names whose transform tuple differs, in sorted order
TransformsChanged(a_objs, b_objs) ==
    SelectSeq(Sorted(DOMAIN a_objs \cap DOMAIN b_objs),
              LAMBDA k : _transform_tuple(a_objs[k]) # _transform_tuple(b_objs[k]))

\* the names whose collection differs, in sorted order
CollectionsChanged(a_objs, b_objs) ==
    SelectSeq(Sorted(DOMAIN a_objs \cap DOMAIN b_objs),
              LAMBDA k : a_objs[k].collection # b_objs[k].collection)

\* the result for two stored snapshots
DiffOf(a_objs, b_objs, from_id, to_id) ==
    LET tk == CHOOSE x \in {TransformsChanged(a_objs, b_objs)} : TRUE
        ck == CHOOSE x \in {CollectionsChanged(a_objs, b_objs)} : TRUE
    IN  [BaseResp EXCEPT
           !.keys = {"ok", "diff_version", "from", "to", "objects_added",
                     "objects_removed", "transforms_changed", "collections_changed",
                     "metrics", "warnings"},
           !.ok = TRUE, !.from = from_id, !.to = to_id,
           !.objects_added = Added(a_objs, b_objs),
           !.objects_removed = Removed(a_objs, b_objs),
           !.transforms_changed =
               [i \in DOMAIN tk |->
                   [name |-> tk[i],
                    from |-> _transform_tuple(a_objs[tk[i]]),
                    to |-> _transform_tuple(b_objs[tk[i]])]],
           !.collections_changed =
               [i \in DOMAIN ck |->
                   [name |-> ck[i], from |-> a_objs[ck[i]].collection,
                    to |-> b_objs[ck[i]].collection]],
           !.count_from = Cardinality(DOMAIN a_objs),
           !.count_to = Cardinality(DOMAIN b_objs)]

world_observe_diff(snaps, from_id, to_id) ==
    IF from_id \notin DOMAIN snaps \/ to_id \notin DOMAIN snaps
    THEN UnknownSnapshot(from_id, to_id)
    ELSE CHOOSE d \in {DiffOf(a, b, from_id, to_id) :
                          a \in {_obj_map(snaps[from_id])},
                          b \in {_obj_map(snaps[to_id])}} : TRUE

(***************************************************************************)
(* blender_bridge.main: one stdin line.  A request is                      *)
(* req = [tool, argsdict, seed_ok, seed, from, to, dsl_version,            *)
(*        batch_is_list, batch]; argsdict is FALSE when "args" is a truthy  *)
(* value that is not a mapping, seed_ok is FALSE when int(seed) raises.    *)
(***************************************************************************)
HandleTool(st, req) ==
    IF req.tool = "world.reset"
    THEN IF ~req.argsdict THEN Raised(st, "AttributeError", <<>>, <<>>)
         ELSE IF ~req.seed_ok THEN Raised(st, "ValueError", <<>>, <<>>)
         ELSE world_reset(st, req.seed)
    ELSE IF req.tool = "world.observe"
    THEN world_observe(st)
    ELSE IF req.tool = "world.observe_diff"
    THEN IF ~req.argsdict THEN Raised(st, "AttributeError", <<>>, <<>>)
         ELSE Done(st, world_observe_diff(st.snapshots, req.from, req.to), <<>>, <<>>)
    ELSE IF req.tool = "world.mutate"
    THEN IF ~req.argsdict THEN Raised(st, "AttributeError", <<>>, <<>>)
         ELSE IF ~req.batch_is_list THEN Done(st, ErrorResp("batch must be a list"), <<>>, <<>>)
         ELSE world_mutate(st, req.dsl_version, req.batch)
    ELSE Done(st, ErrorResp("unknown tool " \o req.tool), <<>>, <<>>)

BridgeState ==
    [w |-> [objects |-> objects, collections |-> collections],
     counter |-> _snapshot_counter, snapshots |-> _snapshots]

NoReq ==
    [tool |-> "", argsdict |-> TRUE, seed_ok |-> TRUE, seed |-> 0, from |-> "", to |-> "",
     dsl_version |-> "", batch_is_list |-> TRUE, batch |-> <<>>]

\* history record of one line: what was read, the lines written for it, the
\* batch indices whose loop iteration began, the exception main caught, and
\* the value of _snapshot_counter before the line
Last(kind, req, out, attempted, raised) ==
    [kind |-> kind, req |-> req, out |-> out, attempted |-> attempted, raised |-> raised,
     pre |-> _snapshot_counter]

\* the state main is in after bootstrap_clean_scene() and the ready line
BridgeInit ==
    /\ objects = <<>>
    /\ collections = {}
    /\ _snapshot_counter = 0
    /\ _snapshots = <<>>
    /\ b_pc = "loop"
    /\ b_lines = 0
    /\ issued = <<>>
    /\ b_last = Last("ready", NoReq, <<>>, <<>>, "")
    /\ diff_log = {}
    /\ sc_step = 0

\* readline() returned "": break
BridgeEOF ==
    /\ b_pc = "loop"
    /\ b_pc' = "exited"
    /\ b_last' = Last("eof", NoReq, <<>>, <<>>, "")
    /\ UNCHANGED <<objects, collections, _snapshot_counter, _snapshots, b_lines, issued, diff_log, sc_step>>
    /\ UNCHANGED <<ui_vars, gw_vars, sup_vars, prov_vars, thr_vars>>

\* a line of white space: continue
BridgeBlank ==
    /\ b_pc = "loop"
    /\ b_lines < MaxBridgeLines
    /\ b_lines' = b_lines + 1
    /\ b_last' = Last("blank", NoReq, <<>>, <<>>, "")
    /\ sc_step' = -1
    /\ UNCHANGED <<objects, collections, _snapshot_counter, _snapshots, b_pc, issued, diff_log>>
    /\ UNCHANGED <<ui_vars, gw_vars, sup_vars, prov_vars, thr_vars>>

\* a line that json.loads rejects ("badjson": JSONDecodeError), or that
\* decodes to a value without .get ("nondict": AttributeError)
BridgeBadLine(kind) ==
    /\ b_pc = "loop"
    /\ b_lines < MaxBridgeLines
    /\ b_lines' = b_lines + 1
    /\ b_last' = Last(kind, NoReq, <<ErrorResp(IF kind = "badjson" THEN "JSONDecodeError"
                                      ELSE "AttributeError")>>, <<>>, "")
    /\ sc_step' = -1
    /\ UNCHANGED <<objects, collections, _snapshot_counter, _snapshots, b_pc, issued, diff_log>>
    /\ UNCHANGED <<ui_vars, gw_vars, sup_vars, prov_vars, thr_vars>>

\* A batch item is [dict, truthy, op, argsdict, args]: dict says the item is a
\* mapping, truthy that bool(item) holds, argsdict that its "args" is a
\* mapping (FALSE: a truthy value of another type).
Item(op, args) ==
    [dict |-> TRUE, truthy |-> TRUE, op |-> op, argsdict |-> TRUE, args |-> args]

CreateSeat ==
    Item("object.create_primitive",
         [type |-> "cube", name |-> "Seat", location |-> <<0, 0, 450000>>])

Req(tool) == [NoReq EXCEPT !.tool = tool]

MutateReq(dsl_version, batch) ==
    [NoReq EXCEPT !.tool = "world.mutate", !.dsl_version = dsl_version, !.batch = batch]

DiffReq(from_id, to_id) ==
    [NoReq EXCEPT !.tool = "world.observe_diff", !.from = from_id, !.to = to_id]

\* the end-to-end scenario of the smoke client, as lines for the bridge
Scenario ==
    << Req("world.reset"), Req("world.observe"), MutateReq(DSL_VERSION, <<CreateSeat>>),
       Req("world.observe"), DiffReq("S1", "S3") >>

\* what diff_log records of a world.observe_diff call: the ids asked for,
\* whether both were in the store, how many ids had been issued, and the
\* line written
DiffEntry(st, req, out) ==
    [from |-> req.from, to |-> req.to,
     known |-> {req.from, req.to} \subseteq DOMAIN st.snapshots,
     pre |-> st.counter,
     out |-> out]

\* the line main writes for what the handler did
Written(h) == IF h.raised # "" THEN ErrorResp(h.raised) ELSE h.resp

\* the lines written for a request if main did not catch the handler's
\* exception
ReplyUncaught(h) == IF h.raised # "" THEN <<>> ELSE <<h.resp>>

\* the lines main writes for one request: every branch of the try block
\* writes once and the except clause writes once
Reply(h) == <<Written(h)>>

\* one iteration of main on a line that decodes to a mapping, by the process
\* whose state is st and which has read lines lines and issued ids so far
BridgeServe(st, lines, ids, req) ==
    /\ b_lines' = lines + 1
    /\ \E h \in {HandleTool(st, req)} :
           /\ objects' = h.st.w.objects
           /\ collections' = h.st.w.collections
           /\ _snapshot_counter' = h.st.counter
           /\ _snapshots' = h.st.snapshots
           /\ issued' = ids \o h.newids
           /\ b_last' = [kind |-> "request", req |-> req, out |-> Reply(h),
                         attempted |-> h.attempted, raised |-> h.raised,
                         pre |-> st.counter]
           /\ diff_log' = IF req.tool = "world.observe_diff" /\ req.argsdict
                          THEN diff_log \cup {DiffEntry(st, req, Written(h))}
                          ELSE diff_log
    /\ sc_step' = IF sc_step = lines /\ lines < Len(Scenario) /\ req = Scenario[lines + 1]
                  THEN lines + 1 ELSE -1

\* a line that decodes to a mapping
BridgeRequest(req) ==
    /\ b_pc = "loop"
    /\ b_lines < MaxBridgeLines
    /\ BridgeServe(BridgeState, b_lines, issued, req)
    /\ UNCHANGED b_pc
    /\ UNCHANGED <<ui_vars, gw_vars, sup_vars, prov_vars, thr_vars>>




(***************************************************************************)
(* ui_bridge_tcp._handle_request, method world_mutate.  The socket peer    *)
(* assigns whole vectors (obj.location = loc), which raises without        *)
(* changing the object when the list has not three components.             *)
(***************************************************************************)
UiError(op, args, error_type, error_message) ==
    [op |-> op, args |-> args, error_type |-> error_type, error_message |-> error_message]

ui_add_cube(objs, args) ==
    LET name == Get(args, "name", "")
        location == Get(args, "location", <<0, 0, 0>>)
        uname == UniqueName(name, ObjNames(objs))
    IN  IF name = "" THEN Outcome(objs, "raise", "name required")
        ELSE IF Len(location) # 3 THEN Outcome(objs, "raise", "TypeError")
        ELSE Outcome(Append(objs, [NewObject(uname) EXCEPT !.location = location]), "ok", "")

ui_set_transform(objs, args) ==
    LET name == Get(args, "name", "")
        i == _find_object(objs, name)
        hasL == "location" \in DOMAIN args
        hasR == "rotation_euler" \in DOMAIN args
        hasS == "scale" \in DOMAIN args
        ol == IF hasL THEN [objs EXCEPT ![i].location = args.location] ELSE objs
        or == IF hasR THEN [ol EXCEPT ![i].rotation_euler = args.rotation_euler] ELSE ol
        os == IF hasS THEN [or EXCEPT ![i].scale = args.scale] ELSE or
    IN  IF name = "" THEN Outcome(objs, "raise", "name required")
        ELSE IF i = 0 THEN Outcome(objs, "raise", "object not found: " \o name)
        ELSE IF hasL /\ Len(args.location) # 3 THEN Outcome(objs, "raise", "ValueError")
        ELSE IF hasR /\ Len(args.rotation_euler) # 3 THEN Outcome(ol, "raise", "ValueError")
        ELSE IF hasS /\ Len(args.scale) # 3 THEN Outcome(or, "raise", "ValueError")
        ELSE Outcome(os, "ok", "")

ui_delete_object(objs, args) ==
    LET name == Get(args, "name", "")
        i == _find_object(objs, name)
    IN  IF name = "" THEN Outcome(objs, "raise", "name required")
        ELSE IF i = 0 THEN Outcome(objs, "raise", "object not found: " \o name)
        ELSE Outcome(SeqFilterOut(objs, name), "ok", "")

\* the try block of the loop, for an item that is a mapping or falsy
\* ((item or {}) is then the empty mapping and op is None)
UiDispatch(objs, item) ==
    IF ~item.dict THEN Outcome(objs, "raise", "unknown op: None")
    ELSE IF item.op \notin {"add_cube", "set_transform", "delete_object"}
    THEN Outcome(objs, "raise", "unknown op: " \o item.op)
    ELSE IF ~item.argsdict THEN Outcome(objs, "raise", "AttributeError")
    ELSE IF item.op = "add_cube" THEN ui_add_cube(objs, item.args)
    ELSE IF item.op = "set_transform" THEN ui_set_transform(objs, item.args)
    ELSE ui_delete_object(objs, item.args)

UiAfterOp(acc, item, o) ==
    [acc EXCEPT
       !.w = o.w,
       !.applied = IF o.r = "ok" THEN @ + 1 ELSE @,
       !.errors = IF o.r = "ok" THEN @
                  ELSE Append(@, UiError(item.op, item.args,
                                         IF o.error \in {"AttributeError", "TypeError"}
                                         THEN o.error ELSE "ValueError",
                                         o.error))]

\* (item or {}).get("op") is outside the try block: a truthy item that is
\* not a mapping raises AttributeError out of the loop
RECURSIVE UiRunBatch(_, _, _)
UiRunBatch(batch, i, acc) ==
    IF i > Len(batch) \/ acc.raised # "" THEN acc
    ELSE IF ~batch[i].dict /\ batch[i].truthy THEN [acc EXCEPT !.raised = "AttributeError"]
    ELSE CHOOSE res \in
            {UiRunBatch(batch, i + 1, nxt) :
                nxt \in {UiAfterOp(acc, batch[i], o) : o \in {UiDispatch(acc.w, batch[i])}}} :
            TRUE

\* the except branch of _handle_request
UiExceptionResp(ex) ==
    [BaseResp EXCEPT !.keys = {"ok", "error_type", "error_message", "trace"},
                     !.ok = FALSE, !.error = ex]

UiFinishMutate(acc) ==
    [objs |-> acc.w,
     resp |-> IF acc.raised # "" THEN UiExceptionResp(acc.raised)
              ELSE [BaseResp EXCEPT
                      !.keys = {"ok", "dsl_version", "applied", "errors", "warnings"},
                      !.ok = (Len(acc.errors) = 0), !.applied = acc.applied,
                      !.errors = acc.errors]]

\* params = [dsl_version, batch_iterable, batch]; batch_iterable is FALSE
\* when "batch" is a truthy value that cannot be iterated
ui_world_mutate(objs, params) ==
    IF params.dsl_version # "1.0"
    THEN [objs |-> objs,
          resp |-> [BaseResp EXCEPT
                      !.keys = {"ok", "dsl_version", "applied", "errors", "warnings"},
                      !.ok = FALSE, !.applied = 0,
                      !.errors = <<UiError("world_mutate", [name |-> ""],
                                           "unsupported_dsl_version",
                                           "unsupported dsl_version " \o params.dsl_version)>>]]
    ELSE IF ~params.batch_iterable
    THEN [objs |-> objs, resp |-> UiExceptionResp("TypeError")]
    ELSE CHOOSE h \in
            {UiFinishMutate(acc) :
                acc \in {UiRunBatch(params.batch, 1,
                                    [w |-> objs, applied |-> 0, errors |-> <<>>,
                                     raised |-> ""])}} : TRUE

NoParams == [dsl_version |-> "", batch_iterable |-> TRUE, batch |-> <<>>]

\* one world_mutate request handled by the socket peer
UiMutate(params) ==
    /\ ui_pc = "serving"
    /\ \E h \in {ui_world_mutate(ui_objects, params)} :
          /\ ui_objects' = h.objs
          /\ ui_last' = [method |-> "world_mutate", params |-> params, out |-> <<h.resp>>]
    /\ UNCHANGED <<ui_pc, bridge_vars, gw_vars, sup_vars, prov_vars, thr_vars>>

\* no socket peer in the specification
UiIdle ==
    /\ ui_pc = "off"
    /\ ui_objects = <<>>
    /\ ui_last = [method |-> "", params |-> NoParams, out |-> <<>>]

(***************************************************************************)
(* server/mcp_server.py: the Session Gateway.                              *)
(*                                                                         *)
(* A stdin line is                                                         *)
(*   kind   : "eof" (readline returned ""), "blank" (white space only),    *)
(*            "null" (the JSON text null), "badjson" (json.loads raises),  *)
(*            "nondict" (a JSON list, number or string), "object"          *)
(*   method : msg.get("method"), "None" when absent                        *)
(*   id     : msg.get("id"), "None" when absent                            *)
(*   params : "object", "falsy" (absent, null, {}, [], 0, "": replaced by  *)
(*            {}), or "other" (a truthy value that is not a mapping)       *)
(*   pv_kind, pv : params.get("protocolVersion"): "absent", "str", "other" *)
(*   name_kind, name : params.get("name"): "absent", "str", "unhashable"   *)
(***************************************************************************)
DefaultProtocol == "2024-11-05"

allowed_tools ==
    {"world_observe", "world_reset", "world_mutate", "world_observe_diff",
     "system_info", "world_health"}

\* str.strip() on the protocol strings the model draws
Strip(t) ==
    IF t = " 2025-06-18 " THEN "2025-06-18"
    ELSE IF t = "   " THEN ""
    ELSE t

NoPayload == [keys |-> {}, ok |-> FALSE, error_type |-> ""]

\* _normalize_ok on what the provider returned: ret is "ok_true" or
\* "ok_false" (a mapping with that ok), "no_ok" (a mapping without ok) or
\* "nondict" (any other JSON value)
_normalize_ok(ret) ==
    IF ret = "ok_true" THEN [keys |-> {"ok"}, ok |-> TRUE, error_type |-> ""]
    ELSE IF ret = "ok_false" THEN [keys |-> {"ok"}, ok |-> FALSE, error_type |-> ""]
    ELSE IF ret = "no_ok" THEN [keys |-> {"ok"}, ok |-> TRUE, error_type |-> ""]
    ELSE [keys |-> {"ok", "value"}, ok |-> TRUE, error_type |-> ""]

\* _error_payload as it would be with the bridge's key for the message
_error_payload_bridge_keys(ex) ==
    [keys |-> {"ok", "error"}, ok |-> FALSE, error_type |-> ""]

\* _error_payload(ex, _short_trace())
_error_payload(ex) ==
    [keys |-> {"ok", "error_type", "error_message", "trace"}, ok |-> FALSE, error_type |-> ex]

UnknownToolPayload ==
    [keys |-> {"ok", "error_type", "error_message"}, ok |-> FALSE, error_type |-> "UnknownTool"]

\* the envelopes main writes
ResultEnv(id, result, pv, payload) ==
    [id |-> id, kind |-> "result", code |-> 0, result |-> result,
     protocolVersion |-> pv, payload |-> payload]

ErrorEnv(id, code) ==
    [id |-> id, kind |-> "error", code |-> code, result |-> "",
     protocolVersion |-> "", payload |-> NoPayload]

\* what one pass of the loop body does: the loop goes on or stops, the
\* session state, and the envelopes written
Pass(pc, neg, init, out) == [pc |-> pc, neg |-> neg, init |-> init, out |-> out]

\* InternalError as it would be if the id were not recovered from msg
InternalErrorNoId(line, neg, init) ==
    Pass("loop", neg, init, <<ErrorEnv("None", -32000)>>)

\* the except branch of the loop: the id is recovered from msg when msg is
\* a mapping
InternalError(line, neg, init) ==
    Pass("loop", neg, init,
         <<ErrorEnv(IF line.kind = "object" THEN line.id ELSE "None", -32000)>>)

\* the try block of tools/call for an allowed tool; ret is what the provider
\* does: one of the return shapes of _normalize_ok, or "raise"
ToolPayload(tool_name, ret) ==
    IF ret = "raise" THEN _error_payload("RuntimeError")
    ELSE IF ret = "no_method" THEN _error_payload("AttributeError")
    ELSE IF tool_name = "system_info"
    THEN [keys |-> {"ok", "server", "provider"}, ok |-> TRUE, error_type |-> ""]
    ELSE _normalize_ok(ret)

\* the shutdown branch as it would be without its break
ShutdownKeepsReading(line, neg, init) ==
    Pass("loop", neg, init, <<ResultEnv(line.id, "null", "", NoPayload)>>)

\* the shutdown branch: one response whose result is null, then break
Shutdown(line, neg, init) ==
    Pass("stopped", neg, init, <<ResultEnv(line.id, "null", "", NoPayload)>>)

GwHandle(line, ret, neg, init) ==
    IF line.kind \in {"eof", "blank", "null"}
    THEN \* read_json_line returned None: break
         Pass("stopped", neg, init, <<>>)
    ELSE IF line.kind \in {"badjson", "nondict"}
    THEN InternalError(line, neg, init)
    ELSE IF line.method = "initialize"
    THEN IF line.params = "other" THEN InternalError(line, neg, init)
         ELSE LET pv == IF line.params = "object" /\ line.pv_kind = "str" /\ Strip(line.pv) # ""
                        THEN Strip(line.pv) ELSE neg
              IN  Pass("loop", pv, TRUE, <<ResultEnv(line.id, "initialize", pv, NoPayload)>>)
    ELSE IF line.method = "notifications/initialized"
    THEN Pass("loop", neg, init, <<>>)
    ELSE IF line.method = "shutdown"
    THEN Shutdown(line, neg, init)
    ELSE IF line.method = "resources/list"
    THEN Pass("loop", neg, init, <<ResultEnv(line.id, "resources", "", NoPayload)>>)
    ELSE IF line.method = "prompts/list"
    THEN Pass("loop", neg, init, <<ResultEnv(line.id, "prompts", "", NoPayload)>>)
    ELSE IF line.method = "tools/list"
    THEN Pass("loop", neg, init, <<ResultEnv(line.id, "tools", "", NoPayload)>>)
    ELSE IF line.method = "tools/call"
    THEN IF line.params = "other" THEN InternalError(line, neg, init)
         ELSE IF line.params = "object" /\ line.name_kind = "unhashable"
         THEN InternalError(line, neg, init)
         ELSE IF line.params = "falsy" \/ line.name_kind # "str"
                 \/ line.name \notin allowed_tools
         THEN Pass("loop", neg, init,
                   <<ResultEnv(line.id, "content", "", UnknownToolPayload)>>)
         ELSE Pass("loop", neg, init,
                   <<ResultEnv(line.id, "content", "", ToolPayload(line.name, ret))>>)
    ELSE Pass("loop", neg, init, <<ErrorEnv(line.id, -32601)>>)


(***************************************************************************)
(* The gateway's loop: one action per kind of line.  gw_in records the id  *)
(* of every line read, gw_out a summary of every envelope written with the *)
(* number of the line that made main write it.                             *)
(***************************************************************************)
NoLine ==
    [kind |-> "", method |-> "None", id |-> "None", params |-> "falsy",
     pv_kind |-> "absent", pv |-> "", name_kind |-> "absent", name |-> ""]

RawLine(kind) == [NoLine EXCEPT !.kind = kind]

ObjLine(method, id) == [NoLine EXCEPT !.kind = "object", !.method = method, !.id = id]

Summary(env, n) ==
    [for |-> n, id |-> env.id, kind |-> env.kind,
     ok |-> IF "ok" \in env.payload.keys
            THEN (IF env.payload.ok THEN "true" ELSE "false") ELSE "",
     error_type |-> env.payload.error_type]

\* one pass of the loop body on the gateway's own state
GwApply(line, ret) ==
    /\ gw_pc = "loop"
    /\ line.kind = "eof" \/ Len(gw_in) < MaxGwLines
    /\ \E p \in {GwHandle(line, ret, negotiated_protocol, initialized)} :
          /\ gw_pc' = p.pc
          /\ negotiated_protocol' = p.neg
          /\ initialized' = p.init
          /\ gw_in' = IF line.kind = "eof" THEN gw_in ELSE Append(gw_in, line.id)
          /\ gw_out' = gw_out \o [i \in DOMAIN p.out |-> Summary(p.out[i], Len(gw_in) + 1)]
          /\ gw_last' = [line |-> line, ret |-> ret, out |-> p.out]

\* one pass of the loop body with a provider that is no part of the state
GwStep(line, ret) ==
    /\ GwApply(line, ret)
    /\ UNCHANGED <<bridge_vars, ui_vars, sup_vars, prov_vars, thr_vars>>

\* the ids a client gives its next request: none, or the request's number
NextIds == {"None", ToString(Len(gw_in) + 1)}

ProtocolInputs ==
    { [pv_kind |-> "absent", pv |-> ""], [pv_kind |-> "other", pv |-> ""],
      [pv_kind |-> "str", pv |-> "2025-06-18"], [pv_kind |-> "str", pv |-> " 2025-06-18 "],
      [pv_kind |-> "str", pv |-> "   "] }

ToolNameInputs ==
    { [name_kind |-> "str", name |-> "world_reset"],
      [name_kind |-> "str", name |-> "system_info"],
      [name_kind |-> "str", name |-> "world_health"],
      [name_kind |-> "str", name |-> "world.mutate"],
      [name_kind |-> "absent", name |-> ""],
      [name_kind |-> "unhashable", name |-> ""] }

ProviderReturns == {"ok_true", "ok_false", "no_ok", "nondict", "raise"}

\* whether main reaches the provider for this tools/call line
Dispatches(line) ==
    /\ line.params = "object"
    /\ line.name_kind = "str"
    /\ line.name \in allowed_tools

GwEOF ==
    /\ gw_pc = "loop"
    /\ GwStep(RawLine("eof"), "none")

GwBlank ==
    /\ gw_pc = "loop"
    /\ GwStep(RawLine("blank"), "none")

GwNullLine ==
    /\ gw_pc = "loop"
    /\ GwStep(RawLine("null"), "none")

GwBadLine == \E kind \in {"badjson", "nondict"} : GwStep(RawLine(kind), "none")

GwInitialize ==
    \E id \in NextIds :
       \/ \E pv \in ProtocolInputs :
             GwStep([ObjLine("initialize", id) EXCEPT !.params = "object",
                        !.pv_kind = pv.pv_kind, !.pv = pv.pv], "none")
       \/ \E params \in {"falsy", "other"} :
             GwStep([ObjLine("initialize", id) EXCEPT !.params = params], "none")

GwNotification ==
    \E id \in NextIds : GwStep(ObjLine("notifications/initialized", id), "none")

GwShutdown == \E id \in NextIds : GwStep(ObjLine("shutdown", id), "none")

GwList ==
    \E id \in NextIds, method \in {"resources/list", "prompts/list", "tools/list"} :
       GwStep(ObjLine(method, id), "none")

GwToolsCall ==
    \E id \in NextIds :
       \/ \E nm \in ToolNameInputs :
             LET line == [ObjLine("tools/call", id) EXCEPT !.params = "object",
                             !.name_kind = nm.name_kind, !.name = nm.name]
             IN  \E ret \in (IF Dispatches(line) THEN ProviderReturns ELSE {"none"}) :
                    GwStep(line, ret)
       \/ \E params \in {"falsy", "other"} :
             GwStep([ObjLine("tools/call", id) EXCEPT !.params = params], "none")

GwUnknownMethod ==
    \E id \in NextIds, method \in {"None", "ping"} : GwStep(ObjLine(method, id), "none")

\* the state of main when it enters its loop
GatewayInit ==
    /\ gw_pc = "loop"
    /\ initialized = FALSE
    /\ negotiated_protocol = DefaultProtocol
    /\ gw_in = <<>>
    /\ gw_out = <<>>
    /\ gw_last = [line |-> NoLine, ret |-> "none", out |-> <<>>]

\* no gateway in the specification
GatewayIdle ==
    /\ gw_pc = "stopped"
    /\ initialized = FALSE
    /\ negotiated_protocol = DefaultProtocol
    /\ gw_in = <<>>
    /\ gw_out = <<>>
    /\ gw_last = [line |-> NoLine, ret |-> "none", out |-> <<>>]

(***************************************************************************)
(* providers/ui_tcp.py: the socket provider.                               *)
(***************************************************************************)
\* What _send gets from the peer is reply = [kind, has_ok, ok, snapshot_id]:
\*   kind "refused" : create_connection raises (no peer, or a timeout)
\*        "empty"   : the peer closed without sending a line
\*        "badjson" : the line is not JSON
\*        "nondict" : the line is JSON, but not an object
\*        "dict"    : a JSON object; has_ok says it has "ok", snapshot_id is
\*                    its "snapshot_id" ("" when it has none)
\* A call's arguments are args = [kind, from, to]: kind "dict", "nondict"
\* (tool_args is not a mapping) or "badseed" (int(seed) raises).
NoReply == [kind |-> "", has_ok |-> FALSE, ok |-> FALSE, snapshot_id |-> ""]

NoArgs == [kind |-> "dict", from |-> "", to |-> ""]

NoCall ==
    [tool |-> "", args |-> NoArgs, reply |-> NoReply, raised |-> "", keys |-> {},
     ok |-> FALSE, snapshot_id |-> "", error_type |-> "", pre |-> 0, conns |-> 0]

\* the id _new_snapshot_id returns when it sets _snap_i to n
UId(n) == "U" \o ToString(n)

\* what a branch of call did: the exception it raised or the result it
\* returned (by its keys and the fields the model follows), the value it
\* leaves in _snap_i, and the number of connections it tried to open
CallOutcome(raised, keys, ok, snapshot_id, error_type, snap_i, sends) ==
    [raised |-> raised, keys |-> keys, ok |-> ok, snapshot_id |-> snapshot_id,
     error_type |-> error_type, snap_i |-> snap_i, sends |-> sends]

CallRaised(ex, snap_i, sends) == CallOutcome(ex, {}, FALSE, "", "", snap_i, sends)

\* the keys of the mapping _send returns for a reply that is a JSON object:
\* "ok" is added when the object has none
SentKeys(reply) ==
    {"ok"} \cup (IF reply.snapshot_id # "" THEN {"snapshot_id"} ELSE {})

\* CallSnapshotTool as it would be if an id were injected into every result
CallSnapshotToolAlwaysInjects(reply, snap_i) ==
    IF reply.kind = "refused" THEN CallRaised("ConnectionRefusedError", snap_i, 1)
    ELSE IF reply.kind = "nondict" THEN CallRaised("TypeError", snap_i, 1)
    ELSE IF reply.kind = "empty"
    THEN CallOutcome("", {"ok", "error_type", "error_message", "snapshot_id"}, FALSE,
                     UId(snap_i + 1), "empty_response", snap_i + 1, 1)
    ELSE IF reply.kind = "badjson"
    THEN CallOutcome("", {"ok", "error_type", "error_message", "raw", "snapshot_id"}, FALSE,
                     UId(snap_i + 1), "json_decode", snap_i + 1, 1)
    ELSE CallOutcome("", SentKeys(reply) \cup {"snapshot_id"},
                     IF reply.has_ok THEN reply.ok ELSE TRUE,
                     UId(snap_i + 1), "", snap_i + 1, 1)

\* CallSnapshotTool as it would be if _send let the decode error of an
\* empty or malformed reply out
CallSnapshotToolRaisesOnBadReply(reply, snap_i) ==
    IF reply.kind \in {"refused", "empty", "badjson"}
    THEN CallRaised(IF reply.kind = "refused" THEN "ConnectionRefusedError"
                    ELSE "JSONDecodeError", snap_i, 1)
    ELSE IF reply.kind = "nondict" THEN CallRaised("TypeError", snap_i, 1)
    ELSE IF reply.snapshot_id = ""
    THEN CallOutcome("", SentKeys(reply) \cup {"snapshot_id"},
                     IF reply.has_ok THEN reply.ok ELSE TRUE,
                     UId(snap_i + 1), "", snap_i + 1, 1)
    ELSE CallOutcome("", SentKeys(reply), IF reply.has_ok THEN reply.ok ELSE TRUE,
                     reply.snapshot_id, "", snap_i, 1)

\* the branches for world_reset, world_observe and world_mutate after their
\* arguments are read: _send, then ok and snapshot_id are filled in
CallSnapshotTool(reply, snap_i) ==
    IF reply.kind = "refused" THEN CallRaised("ConnectionRefusedError", snap_i, 1)
    ELSE IF reply.kind = "nondict" THEN CallRaised("TypeError", snap_i, 1)
    ELSE IF reply.kind = "empty"
    THEN CallOutcome("", {"ok", "error_type", "error_message", "snapshot_id"}, FALSE,
                     UId(snap_i + 1), "empty_response", snap_i + 1, 1)
    ELSE IF reply.kind = "badjson"
    THEN CallOutcome("", {"ok", "error_type", "error_message", "raw", "snapshot_id"}, FALSE,
                     UId(snap_i + 1), "json_decode", snap_i + 1, 1)
    ELSE IF reply.snapshot_id = ""
    THEN CallOutcome("", SentKeys(reply) \cup {"snapshot_id"},
                     IF reply.has_ok THEN reply.ok ELSE TRUE,
                     UId(snap_i + 1), "", snap_i + 1, 1)
    ELSE CallOutcome("", SentKeys(reply), IF reply.has_ok THEN reply.ok ELSE TRUE,
                     reply.snapshot_id, "", snap_i, 1)

\* the branch for world_observe_diff, as it would be if it asked the peer
CallObserveDiffForwarded(reply, snap_i) == CallSnapshotTool(reply, snap_i)

\* the branch for world_observe_diff
CallObserveDiff(reply, snap_i) ==
    CallOutcome("", {"ok", "error_type", "error_message"}, FALSE, "", "not_supported",
                snap_i, 0)

\* get_info and health: one ping, whose reply is read with .get
CallPing(tool, reply, snap_i) ==
    IF reply.kind = "refused" THEN CallRaised("ConnectionRefusedError", snap_i, 1)
    ELSE IF reply.kind = "nondict" THEN CallRaised("AttributeError", snap_i, 1)
    ELSE IF tool = "system_info"
    THEN CallOutcome("", {"provider", "host", "port", "blender", "ok"},
                     IF reply.kind = "dict" /\ reply.has_ok THEN reply.ok
                     ELSE reply.kind = "dict",
                     "", "", snap_i, 1)
    ELSE CallOutcome("", {"ok", "provider_ok", "details"},
                     IF reply.kind = "dict" /\ reply.has_ok THEN reply.ok
                     ELSE reply.kind = "dict",
                     "", "", snap_i, 1)

\* UiTcpBlenderProvider.call
UiTcpCall(tool, args, reply, snap_i) ==
    IF tool \in {"system_info", "world_health"} THEN CallPing(tool, reply, snap_i)
    ELSE IF tool = "world_reset" /\ args.kind = "badseed"
    THEN CallRaised("ValueError", snap_i, 0)
    ELSE IF tool \in {"world_reset", "world_observe", "world_mutate"}
    THEN CallSnapshotTool(reply, snap_i)
    ELSE IF tool = "world_observe_diff" THEN CallObserveDiff(reply, snap_i)
    ELSE CallOutcome("", {"ok", "error_type", "error_message"}, FALSE, "", "unknown_tool",
                     snap_i, 0)

MaxUiCalls == 3     \* calls one socket provider receives in SpecUiProvider

UiTools ==
    {"system_info", "world_health", "world_reset", "world_observe", "world_mutate",
     "world_observe_diff", "world.reset"}

UiArgs ==
    {NoArgs, [NoArgs EXCEPT !.kind = "nondict"], [NoArgs EXCEPT !.kind = "badseed"],
     [NoArgs EXCEPT !.from = "U1", !.to = "U2"], [NoArgs EXCEPT !.from = "S1", !.to = "U1"]}

UiReplies ==
    {[NoReply EXCEPT !.kind = k] : k \in {"refused", "empty", "badjson", "nondict"}}
    \cup {[kind |-> "dict", has_ok |-> TRUE, ok |-> ok, snapshot_id |-> sid] :
             ok \in BOOLEAN, sid \in {"", "U1", "X7"}}
    \cup {[kind |-> "dict", has_ok |-> FALSE, ok |-> FALSE, snapshot_id |-> sid] :
             sid \in {"", "X7"}}

\* one call of the provider; reply is what the peer would answer
UiProviderCall(tool, args, reply) ==
    /\ u_calls < MaxUiCalls
    /\ u_calls' = u_calls + 1
    /\ \E c \in {UiTcpCall(tool, args, reply, _snap_i)} :
          /\ _snap_i' = c.snap_i
          /\ u_conns' = u_conns + c.sends
          /\ u_ids' = IF c.snap_i # _snap_i THEN Append(u_ids, c.snapshot_id) ELSE u_ids
          /\ u_last' = [tool |-> tool, args |-> args,
                        reply |-> IF c.sends = 0 THEN NoReply ELSE reply,
                        raised |-> c.raised, keys |-> c.keys, ok |-> c.ok,
                        snapshot_id |-> c.snapshot_id, error_type |-> c.error_type,
                        pre |-> _snap_i, conns |-> u_conns]
    /\ UNCHANGED <<bridge_vars, ui_vars, gw_vars, sup_vars, thr_vars>>

\* no bridge in the specification
BridgeIdle ==
    /\ objects = <<>>
    /\ collections = {}
    /\ _snapshot_counter = 0
    /\ _snapshots = <<>>
    /\ b_pc = "exited"
    /\ b_lines = 0
    /\ issued = <<>>
    /\ b_last = Last("ready", NoReq, <<>>, <<>>, "")
    /\ diff_log = {}
    /\ sc_step = -1

\* no supervised child in the specification
\* the record of a call before any call was made
NoSupCall ==
    [req |-> NoReq, restarted |-> FALSE, raised |-> "", out |-> <<>>, spawns |-> 0,
     respawns |-> 0, kills |-> 0, writes |-> 0, failed |-> 0, target |-> "none",
     reply |-> "", exit |-> "", start |-> "none", live |-> 0]

SupervisorIdle ==
    /\ proc = "none"
    /\ prev_ids = {}
    /\ p_calls = 0
    /\ p_last = NoSupCall

\* no socket provider in the specification
ProviderIdle ==
    /\ _snap_i = 0
    /\ u_conns = 0
    /\ u_ids = <<>>
    /\ u_calls = 0
    /\ u_last = NoCall

(***************************************************************************)
(* providers/headless.py: threads calling one HeadlessBlenderProvider.     *)
(* call() holds self._lock from before the write of the request to after   *)
(* the read of the reply.  The request line reaches the child's stdin in   *)
(* two pieces (the buffered write, then the flush); the child answers each *)
(* line it reads with one line.                                            *)
(***************************************************************************)
MaxThreads == 3         \* threads that call the provider in SpecThreads
MaxThreadCalls == 2     \* calls each thread makes

Threads == 1..MaxThreads

\* no thread calls the provider in the specification
ThreadsIdle ==
    /\ t_pc = [t \in Threads |-> "off"]
    /\ t_lock = 0
    /\ t_sent = <<>>
    /\ t_read = 0
    /\ t_replies = <<>>
    /\ t_got = [t \in Threads |-> <<>>]
    /\ t_done = [t \in Threads |-> 0]
    /\ t_raised = [t \in Threads |-> {}]

(***************************************************************************)
(* SpecGateway: one run of the gateway over any sequence of lines, with a  *)
(* provider that may return any shape of value or raise.                   *)
(***************************************************************************)
InitGateway == GatewayInit /\ BridgeIdle /\ UiIdle /\ SupervisorIdle /\ ProviderIdle /\ ThreadsIdle

NextGateway ==
    \/ GwEOF
    \/ GwBlank
    \/ GwNullLine
    \/ GwBadLine
    \/ GwInitialize
    \/ GwNotification
    \/ GwShutdown
    \/ GwList
    \/ GwToolsCall
    \/ GwUnknownMethod

SpecGateway == InitGateway /\ [][NextGateway]_vars

(***************************************************************************)
(* Inputs.                                                                 *)
(***************************************************************************)
\* a batch item that is not a mapping: a string or a number
NonDictItem ==
    [dict |-> FALSE, truthy |-> TRUE, op |-> "", argsdict |-> TRUE, args |-> [name |-> ""]]

\* the batch item null
NullItem ==
    [dict |-> FALSE, truthy |-> FALSE, op |-> "", argsdict |-> TRUE, args |-> [name |-> ""]]

\* an item whose "args" is a truthy value that is not a mapping
BadArgsItem(op) ==
    [dict |-> TRUE, truthy |-> TRUE, op |-> op, argsdict |-> FALSE, args |-> [name |-> ""]]

MutItems ==
    { NonDictItem, NullItem,
      Item("object.create_primitive", [type |-> "Cube", name |-> "A",
                                       location |-> <<0, 0, 450000>>]),
      Item("object.create_primitive", [name |-> "B", location |-> <<70>>,
                                       collection |-> "C"]),
      Item("object.create_primitive", [type |-> "sphere", name |-> "A"]),
      Item("object.set_transform", [name |-> "A", location |-> <<1000004, 0, 16>>]),
      Item("object.set_transform", [name |-> "A", location |-> <<30, 30, 30>>,
                                    scale |-> <<2000000>>]),
      Item("object.set_transform", [name |-> "B", rotation_euler |-> <<0, 1570800, 0>>]),
      Item("object.delete", [name |-> "A"]),
      Item("collection.create", [name |-> ""]),
      Item("collection.create", [name |-> "D"]),
      Item("collection.link_object", [collection |-> "C", object |-> "A"]),
      Item("collection.link_object", [collection |-> "D", object |-> "B"]),
      Item("object.rename", [name |-> "A"]),
      BadArgsItem("object.set_transform"),
      Item("", [name |-> "A"]) }

RECURSIVE BatchesOfLen(_, _)
BatchesOfLen(items, n) ==
    IF n = 0 THEN {<<>>}
    ELSE {Append(b, x) : b \in BatchesOfLen(items, n - 1), x \in items}

BatchesUpTo(items, n) == UNION {BatchesOfLen(items, k) : k \in 0..n}

AllBatches == BatchesUpTo(MutItems, MaxBatch)

BridgeBatches ==
    { <<CreateSeat>>,
      <<Item("object.set_transform", [name |-> "Ghost", location |-> <<0, 0, 0>>]),
        Item("object.create_primitive", [name |-> "A", collection |-> "C"])>>,
      <<Item("object.set_transform", [name |-> "Seat", location |-> <<0, 0, 450004>>]),
        NonDictItem, CreateSeat>>,
      <<Item("object.delete", [name |-> "Seat"])>> }

BridgeRequests ==
    { Req("world.reset"), Req("world.observe"),
      [Req("world.reset") EXCEPT !.seed_ok = FALSE],
      [Req("world.observe_diff") EXCEPT !.argsdict = FALSE],
      Req("world_reset"),
      MutateReq("2.0", <<CreateSeat>>),
      [MutateReq(DSL_VERSION, <<>>) EXCEPT !.batch_is_list = FALSE] }
    \cup {MutateReq(DSL_VERSION, b) : b \in BridgeBatches}
    \cup {DiffReq("S1", "S1"), DiffReq("S1", "S2"), DiffReq("S9", "S1"), DiffReq("S1", "S3")}

(***************************************************************************)
(* SpecBridge: one run of the bridge process over any sequence of lines.   *)
(***************************************************************************)
InitBridge == BridgeInit /\ UiIdle /\ GatewayIdle /\ SupervisorIdle /\ ProviderIdle /\ ThreadsIdle

NextBridge ==
    \/ BridgeEOF
    \/ BridgeBlank
    \/ \E kind \in {"badjson", "nondict"} : BridgeBadLine(kind)
    \/ \E req \in BridgeRequests : BridgeRequest(req)

SpecBridge == InitBridge /\ [][NextBridge]_vars

(***************************************************************************)
(* SpecMutate: one world.mutate request, with every batch of up to         *)
(* MaxBatch items, sent to a backend whose scene was set up by an earlier  *)
(* request: the bridge process, or the socket peer.                        *)
(***************************************************************************)
SetupBatches ==
    { <<>>,
      <<Item("object.create_primitive", [name |-> "A"])>>,
      <<Item("object.create_primitive", [name |-> "A"]),
        Item("object.create_primitive", [name |-> "B", collection |-> "C"])>> }

UiSetupBatches ==
    { <<>>,
      <<Item("add_cube", [name |-> "A"])>>,
      <<Item("add_cube", [name |-> "A"]), Item("add_cube", [name |-> "B"])>> }

UiItems ==
    { NonDictItem, NullItem,
      Item("add_cube", [name |-> "A", location |-> <<0, 0, 450000>>]),
      Item("add_cube", [location |-> <<0, 0, 450000>>]),
      Item("add_cube", [name |-> "B", location |-> <<70>>]),
      Item("set_transform", [name |-> "A", location |-> <<30, 30, 30>>,
                             scale |-> <<2000000>>]),
      Item("set_transform", [name |-> "B", rotation_euler |-> <<0, 1570800, 0>>]),
      Item("delete_object", [name |-> "A"]),
      Item("object.delete", [name |-> "A"]),
      BadArgsItem("set_transform") }

UiBatches == BatchesUpTo(UiItems, MaxBatch)

UiParams(dsl_version, batch) ==
    [dsl_version |-> dsl_version, batch_iterable |-> TRUE, batch |-> batch]

FreshState == [w |-> [objects |-> <<>>, collections |-> {}], counter |-> 0, snapshots |-> <<>>]

InitMutateBridge ==
    /\ \E setup \in SetupBatches :
          \E h \in {HandleTool(FreshState, MutateReq(DSL_VERSION, setup))} :
              /\ objects = h.st.w.objects
              /\ collections = h.st.w.collections
              /\ _snapshot_counter = h.st.counter
              /\ _snapshots = h.st.snapshots
              /\ issued = h.newids
    /\ b_pc = "loop"
    /\ b_lines = 1
    /\ b_last = Last("ready", NoReq, <<>>, <<>>, "")
    /\ diff_log = {}
    /\ sc_step = -1
    /\ UiIdle

InitMutateUi ==
    /\ BridgeIdle
    /\ ui_pc = "serving"
    /\ \E setup \in UiSetupBatches :
          ui_objects = ui_world_mutate(<<>>, UiParams("1.0", setup)).objs
    /\ ui_last = [method |-> "", params |-> NoParams, out |-> <<>>]

InitMutate ==
    (InitMutateBridge \/ InitMutateUi) /\ GatewayIdle /\ SupervisorIdle /\ ProviderIdle /\ ThreadsIdle

MutateBridge ==
    /\ b_lines = 1
    /\ \/ \E dsl \in {DSL_VERSION, "2.0"}, batch \in AllBatches :
             BridgeRequest(MutateReq(dsl, batch))
       \/ BridgeRequest([MutateReq(DSL_VERSION, <<>>) EXCEPT !.batch_is_list = FALSE])

MutateUi ==
    /\ ui_last.method = ""
    /\ \/ \E dsl \in {"1.0", "2.0"}, batch \in UiBatches : UiMutate(UiParams(dsl, batch))
       \/ UiMutate([UiParams("1.0", <<>>) EXCEPT !.batch_iterable = FALSE])

NextMutate == MutateBridge \/ MutateUi

SpecMutate == InitMutate /\ [][NextMutate]_vars

(***************************************************************************)
(* providers/headless.py: HeadlessBlenderProvider supervising one bridge   *)
(* child.  The constructor starts the child; call() starts a new one when  *)
(* poll() shows the child has ended, or when the write to its stdin fails. *)
(* A new child is a new process: its module state is that of BridgeInit.   *)
(***************************************************************************)
MaxCalls == 4       \* calls one provider receives in SpecSupervisor

SupervisorRequests ==
    { Req("world.reset"), Req("world.observe"), MutateReq(DSL_VERSION, <<CreateSeat>>),
      DiffReq("S1", "S1"), DiffReq("S1", "S2"), DiffReq("S9", "S1") }

\* the child ends on its own (poll() will show it), or its stdin breaks
\* while poll() still shows it running
ChildExits(how) ==
    /\ proc \in {"alive", "unready"}
    /\ proc' = how
    /\ UNCHANGED <<prev_ids, p_calls, p_last>>
    /\ UNCHANGED <<bridge_vars, ui_vars, gw_vars, prov_vars, thr_vars>>

\* the first stdout line of a spawned child, as _start_blender judges it:
\* accepted, empty, not JSON, or JSON that is not the ready object
HandshakeLines == {"ok", "empty", "badjson", "notready"}

\* _start_blender on a provider whose child is p: [proc, spawned, raised].
\* A child whose poll() is None is kept whatever its handshake was; else a
\* child is spawned and assigned to self._proc before its first line is
\* read, and a rejected line raises without killing or clearing it.  An
\* empty line is taken as the end of the output of a child that has ended.
\* _start_blender as it would be without the poll() guard of its first lines
_start_blender_unguarded(p, h) ==
    [proc |-> IF h = "ok" THEN "alive" ELSE IF h = "empty" THEN "exited" ELSE "unready",
     spawned |-> TRUE,
     raised |-> IF h = "ok" THEN "" ELSE "RuntimeError"]

_start_blender(p, h) ==
    IF p \in {"alive", "broken", "unready"}
    THEN [proc |-> p, spawned |-> FALSE, raised |-> ""]
    ELSE [proc |-> IF h = "ok" THEN "alive" ELSE IF h = "empty" THEN "exited" ELSE "unready",
          spawned |-> TRUE,
          raised |-> IF h = "ok" THEN "" ELSE "RuntimeError"]

\* what one call has done so far: the child it leaves, the children it
\* spawned (respawns: in the except branch), the children it killed, the
\* write attempts (failed: those that raised), the handshake state of the
\* child the last write went to, the exception leaving call, whether the
\* bridge served the request, whether the line returned is a line the child
\* wrote before the request, the reply read and the exit code reported;
\* live: the most children of this provider running at one moment of the
\* call (close() kills the old child before the except branch spawns)
CallLog(p) ==
    [proc |-> p, spawns |-> 0, respawns |-> 0, kills |-> 0, writes |-> 0, failed |-> 0,
     live |-> 0,
     target |-> "none", raised |-> "", served |-> FALSE, stale |-> FALSE,
     reply |-> "", exit |-> ""]

\* the read of the reply: an empty line raises RuntimeError with the value
\* of poll() at that moment (None when the child is not reaped yet), a line
\* that does not decode makes json.loads raise, any other line is returned.
\* The line a child with a rejected handshake has next is not the reply.
ReadReply(c, env) ==
    IF env.reply = "empty"
    THEN [c EXCEPT !.raised = "RuntimeError", !.reply = "empty", !.exit = env.exit,
                   !.proc = "exited"]
    ELSE IF env.reply = "garbage"
    THEN [c EXCEPT !.raised = "JSONDecodeError", !.reply = "garbage"]
    ELSE [c EXCEPT !.reply = "line", !.served = (c.proc = "alive"),
                   !.stale = (c.proc = "unready")]

\* the except branch as it would be if a failed write were surfaced at once
WriteFailedNoRetry(c, env) == [c EXCEPT !.raised = "BrokenPipeError"]

\* the except branch of call: close(), _start_blender(), and the same line
\* written once more outside any try
WriteFailed(c, env) ==
    LET s == _start_blender("none", env.h2)
        r == [c EXCEPT !.kills = @ + 1, !.proc = s.proc, !.spawns = @ + 1,
                       !.respawns = @ + 1]
    IN  IF s.raised # "" THEN [r EXCEPT !.raised = s.raised]
        ELSE IF env.w2 = "fail"
        THEN [r EXCEPT !.writes = @ + 1, !.failed = @ + 1, !.target = "ready",
                       !.raised = "BrokenPipeError", !.proc = "broken"]
        ELSE ReadReply([r EXCEPT !.writes = @ + 1, !.target = "ready"], env)

\* the body of call under the lock.  env gives what the children do: the
\* first line of a child spawned at the top (h1) and whether the write to it
\* fails (w1), the same for the child spawned in the except branch (h2, w2),
\* the reply read and what poll() gives after an empty reply.
HeadlessCall(p, env) ==
    LET s == _start_blender(p, env.h1)
        c == [CallLog(s.proc) EXCEPT
                 !.spawns = IF s.spawned THEN 1 ELSE 0,
                 !.live = (IF p \in {"alive", "broken", "unready"} THEN 1 ELSE 0)
                          + (IF s.spawned THEN 1 ELSE 0)]
        w == [c EXCEPT !.writes = 1,
                       !.target = IF s.proc = "unready" THEN "unready" ELSE "ready"]
    IN  IF s.raised # "" THEN [c EXCEPT !.raised = s.raised]
        ELSE IF s.proc = "broken" \/ (s.spawned /\ env.w1 = "fail")
        THEN WriteFailed([w EXCEPT !.failed = 1], env)
        ELSE ReadReply(w, env)

\* the environments of one call on a provider whose child is p, the parts
\* the call never reaches fixed
CallEnvs(p) ==
    { e \in [h1 : HandshakeLines, w1 : {"ok", "fail"}, h2 : HandshakeLines,
             w2 : {"ok", "fail"}, reply : {"line", "empty", "garbage"},
             exit : {"status", "None"}] :
        LET spawn1 == p = "exited"
            wrote1 == ~spawn1 \/ e.h1 = "ok"
            fail1 == wrote1 /\ (p = "broken" \/ (spawn1 /\ e.w1 = "fail"))
            reads == wrote1 /\ (~fail1 \/ (e.h2 = "ok" /\ e.w2 = "ok"))
        IN  /\ ~spawn1 => e.h1 = "ok"
            /\ ~(spawn1 /\ e.h1 = "ok") => e.w1 = "ok"
            /\ ~fail1 => e.h2 = "ok"
            /\ ~(fail1 /\ e.h2 = "ok") => e.w2 = "ok"
            /\ ~reads => e.reply = "line"
            /\ e.reply # "empty" => e.exit = "status" }

\* CallEnvs, tabulated once
EnvsOf == [p \in {"alive", "exited", "broken", "unready"} |-> CallEnvs(p)]

\* the ready line, which a child whose first line was rejected may have next
StaleLine ==
    [BaseResp EXCEPT !.keys = {"ok", "type", "snapshot_version", "dsl_version"}, !.ok = TRUE]

\* the module state of a child that has served nothing yet
FreshBridge ==
    /\ objects' = <<>>
    /\ collections' = {}
    /\ _snapshot_counter' = 0
    /\ _snapshots' = <<>>
    /\ b_lines' = 0
    /\ issued' = <<>>
    /\ b_last' = [kind |-> "ready", req |-> NoReq, out |-> <<>>, attempted |-> <<>>,
                  raised |-> "", pre |-> 0]
    /\ sc_step' = -1
    /\ UNCHANGED <<b_pc, diff_log>>

\* call(): _start_blender or the except branch replaces a child that is
\* not usable, the request is written, and the reply line is read
ProviderCallCore(req, env) ==
    /\ proc \in {"alive", "exited", "broken", "unready"}
    /\ p_calls < MaxCalls
    /\ p_calls' = p_calls + 1
    /\ \E c \in {HeadlessCall(proc, env)} :
          /\ proc' = c.proc
          /\ prev_ids' = IF c.spawns > 0 THEN prev_ids \cup Range(issued) ELSE prev_ids
          /\ IF c.served
             THEN /\ BridgeServe(IF c.spawns > 0 THEN FreshState ELSE BridgeState,
                                 IF c.spawns > 0 THEN 0 ELSE b_lines,
                                 IF c.spawns > 0 THEN <<>> ELSE issued, req)
                  /\ UNCHANGED b_pc
             ELSE IF c.spawns > 0 THEN FreshBridge ELSE UNCHANGED bridge_vars
          /\ p_last' = [req |-> req, restarted |-> c.spawns > 0, raised |-> c.raised,
                        out |-> IF c.served THEN b_last'.out
                                ELSE IF c.stale THEN <<StaleLine>> ELSE <<>>,
                        spawns |-> c.spawns, respawns |-> c.respawns, kills |-> c.kills,
                        writes |-> c.writes, failed |-> c.failed, target |-> c.target,
                        reply |-> c.reply, exit |-> c.exit,
                        start |-> proc, live |-> c.live]

\* call() by a caller that is no part of the state
ProviderCall(req, env) ==
    /\ ProviderCallCore(req, env)
    /\ UNCHANGED <<ui_vars, gw_vars, prov_vars, thr_vars>>

\* call() on a child that ends before it writes its reply: readline()
\* returns "" and call raises RuntimeError
ProviderCallNoOutput(req) ==
    \E env \in EnvsOf[proc] : env.reply = "empty" /\ ProviderCall(req, env)

InitSupervisor ==
    /\ BridgeInit
    /\ proc = "alive"
    /\ prev_ids = {}
    /\ p_calls = 0
    /\ p_last = NoSupCall
    /\ UiIdle /\ GatewayIdle /\ ProviderIdle /\ ThreadsIdle

NextSupervisor ==
    \/ \E how \in {"exited", "broken"} : ChildExits(how)
    \/ \E req \in SupervisorRequests :
          \E env \in EnvsOf[proc] : env.reply # "empty" /\ ProviderCall(req, env)
    \/ \E req \in SupervisorRequests : ProviderCallNoOutput(req)

SpecSupervisor == InitSupervisor /\ [][NextSupervisor]_vars

(***************************************************************************)
(* SpecSession: server/mcp_server.py run with the subprocess provider.     *)
(* main builds HeadlessBlenderProvider before its loop, outside any try:   *)
(* the constructor resolves the executable and starts the child.  The loop *)
(* hands the tool name of a tools/call to provider.call as it is, and      *)
(* call writes it as the "tool" of the line for the bridge.  main returns  *)
(* after its loop without calling provider.close().  The lines of the      *)
(* session are initialize, the list methods, tools/call and shutdown; the  *)
(* other lines are those of SpecGateway.                                   *)
(***************************************************************************)
\* what main gets from provider.call, as _normalize_ok sees it
ProviderReturn(c) ==
    IF c.raised # "" THEN "raise"
    ELSE IF "ok" \notin c.out[1].keys THEN "no_ok"
    ELSE IF c.out[1].ok THEN "ok_true" ELSE "ok_false"

\* the tools of allowed_tools that main passes to provider.call
CallTools == allowed_tools \ {"system_info", "world_health"}

\* main up to its loop: HeadlessBlenderProvider() raises FileNotFoundError
\* when no executable is found and RuntimeError when the first line of the
\* child is rejected, and either ends main before any line is read
SessionBoot(exe, h) ==
    /\ gw_pc = "boot"
    /\ IF exe = "missing"
       THEN /\ gw_pc' = "crashed"
            /\ proc' = "none"
            /\ p_last' = [NoSupCall EXCEPT !.raised = "FileNotFoundError"]
       ELSE \E s \in {_start_blender("none", h)} :
               /\ gw_pc' = IF s.raised = "" THEN "loop" ELSE "crashed"
               /\ proc' = s.proc
               /\ p_last' = [NoSupCall EXCEPT !.raised = s.raised, !.spawns = 1, !.live = 1]
    /\ UNCHANGED <<initialized, negotiated_protocol, gw_in, gw_out, gw_last, prev_ids, p_calls>>
    /\ UNCHANGED <<bridge_vars, ui_vars, prov_vars, thr_vars>>

\* tools/call for a tool main passes to provider.call
SessionToolsCall(name, env) ==
    \E id \in NextIds :
       /\ gw_pc = "loop"
       /\ Len(gw_in) < MaxGwLines
       /\ ProviderCallCore(Req(name), env)
       /\ GwApply([ObjLine("tools/call", id) EXCEPT !.params = "object",
                      !.name_kind = "str", !.name = name],
                  ProviderReturn(p_last'))
       /\ UNCHANGED <<ui_vars, prov_vars, thr_vars>>

\* tools/call that does not reach provider.call: a name outside
\* allowed_tools, or system_info and world_health, for which main calls
\* get_info() and health(), which HeadlessBlenderProvider does not have
SessionOtherToolsCall ==
    \E id \in NextIds, nm \in ToolNameInputs :
       /\ nm.name \notin CallTools
       /\ LET line == [ObjLine("tools/call", id) EXCEPT !.params = "object",
                          !.name_kind = nm.name_kind, !.name = nm.name]
          IN  GwStep(line, IF Dispatches(line) THEN "no_method" ELSE "none")

InitSession ==
    /\ gw_pc = "boot"
    /\ initialized = FALSE
    /\ negotiated_protocol = DefaultProtocol
    /\ gw_in = <<>>
    /\ gw_out = <<>>
    /\ gw_last = [line |-> NoLine, ret |-> "none", out |-> <<>>]
    /\ BridgeInit
    /\ proc = "none"
    /\ prev_ids = {}
    /\ p_calls = 0
    /\ p_last = NoSupCall
    /\ UiIdle /\ ProviderIdle /\ ThreadsIdle

MaxSessionLines == 2     \* lines the gateway reads in SpecSession

NextSession ==
    \/ \E exe \in {"found", "missing"}, h \in HandshakeLines : SessionBoot(exe, h)
    \/ GwEOF
    \/ /\ gw_pc = "loop"
       /\ Len(gw_in) < MaxSessionLines
       /\ \/ \E name \in CallTools :
                \E env \in EnvsOf[proc] : SessionToolsCall(name, env)
          \/ SessionOtherToolsCall
          \/ \E how \in {"exited", "broken"} : ChildExits(how)
          \/ GwInitialize
          \/ GwShutdown
          \/ GwList

SpecSession == InitSession /\ [][NextSession]_vars

(***************************************************************************)
(* SpecThreads: MaxThreads threads, each calling the provider              *)
(* MaxThreadCalls times, in any interleaving the lock allows.              *)
(***************************************************************************)
\* the lock as it would be if acquiring it never blocked
LockIgnored(l) == TRUE

\* threading.Lock: free when no thread holds it
LockFree(l) == l = 0

\* with self._lock: entered
Acquire(t) ==
    /\ t_pc[t] = "idle"
    /\ t_done[t] < MaxThreadCalls
    /\ LockFree(t_lock)
    /\ t_lock' = t
    /\ t_pc' = [t_pc EXCEPT ![t] = "locked"]
    /\ UNCHANGED <<t_sent, t_read, t_replies, t_got, t_done, t_raised>>
    /\ UNCHANGED <<bridge_vars, ui_vars, gw_vars, sup_vars, prov_vars>>

\* stdin.write(line) and stdin.flush(): the line of the thread's n-th call
\* goes into the pipe in two pieces
WriteRequest(t) ==
    /\ t_pc[t] \in {"locked", "writing"}
    /\ t_sent' = Append(t_sent, [by |-> t, n |-> t_done[t] + 1,
                                 part |-> IF t_pc[t] = "locked" THEN 1 ELSE 2])
    /\ t_pc' = [t_pc EXCEPT ![t] = IF t_pc[t] = "locked" THEN "writing" ELSE "written"]
    /\ UNCHANGED <<t_lock, t_read, t_replies, t_got, t_done, t_raised>>
    /\ UNCHANGED <<bridge_vars, ui_vars, gw_vars, sup_vars, prov_vars>>

\* the child reads up to the next end of line and writes one line: the
\* reply to the request if the pieces read are one request, an error line
\* (to nobody) otherwise
ChildServes ==
    /\ \E j \in (t_read + 1)..Len(t_sent) :
          /\ t_sent[j].part = 2
          /\ \A i \in (t_read + 1)..(j - 1) : t_sent[i].part = 1
          /\ t_read' = j
          /\ t_replies' =
                Append(t_replies,
                       IF j = t_read + 2 /\ t_sent[j - 1] = [t_sent[j] EXCEPT !.part = 1]
                       THEN [to |-> t_sent[j].by, n |-> t_sent[j].n]
                       ELSE [to |-> 0, n |-> 0])
    /\ UNCHANGED <<t_pc, t_lock, t_sent, t_got, t_done, t_raised>>
    /\ UNCHANGED <<bridge_vars, ui_vars, gw_vars, sup_vars, prov_vars>>

\* stdout.readline(): blocks until the child has written a line
ThreadRead(t) ==
    /\ t_pc[t] = "written"
    /\ t_replies # <<>>
    /\ t_got' = [t_got EXCEPT ![t] = Append(@, Head(t_replies))]
    /\ t_replies' = Tail(t_replies)
    /\ t_pc' = [t_pc EXCEPT ![t] = "read"]
    /\ UNCHANGED <<t_lock, t_sent, t_read, t_done, t_raised>>
    /\ UNCHANGED <<bridge_vars, ui_vars, gw_vars, sup_vars, prov_vars>>

\* the with block as it would be if an exception left the lock held
LockExitKeptOnRaise(l, raising) == IF raising THEN l ELSE 0

\* with self._lock, left by a return or by an exception: the lock is
\* released either way
LockExit(l, raising) == 0

\* return json.loads(out_line): the with block is left
Release(t) ==
    /\ t_pc[t] = "read"
    /\ t_lock' = LockExit(t_lock, FALSE)
    /\ t_pc' = [t_pc EXCEPT ![t] = "idle"]
    /\ t_done' = [t_done EXCEPT ![t] = @ + 1]
    /\ UNCHANGED <<t_sent, t_read, t_replies, t_got, t_raised>>
    /\ UNCHANGED <<bridge_vars, ui_vars, gw_vars, sup_vars, prov_vars>>

\* the ways call ends by raising: the handshake of a restarted child is
\* rejected, the write after the restart fails, readline() returns "", or
\* the line read does not decode
RaiseKinds == {"handshake", "retry_write", "no_output", "bad_reply"}

\* call ends by raising.  The first two happen in the except branch, after
\* a first write that put nothing into the pipe; a call that reads no
\* output has a child that ended with the request unanswered, and the
\* child that replaces it starts on new pipes; an undecodable line is read
\* off the child's stdout like a reply.
CallRaises(t, why) ==
    /\ t_lock = t
    /\ why \in {"handshake", "retry_write"} =>
          /\ t_pc[t] = "locked"
          /\ UNCHANGED <<t_read, t_replies>>
    /\ why = "no_output" =>
          /\ t_pc[t] = "written"
          /\ t_replies = <<>>
          /\ t_read' = Len(t_sent)
          /\ UNCHANGED t_replies
    /\ why = "bad_reply" =>
          /\ t_pc[t] = "written"
          /\ t_replies # <<>>
          /\ t_replies' = Tail(t_replies)
          /\ UNCHANGED t_read
    /\ t_lock' = LockExit(t_lock, TRUE)
    /\ t_pc' = [t_pc EXCEPT ![t] = "idle"]
    /\ t_done' = [t_done EXCEPT ![t] = @ + 1]
    /\ t_raised' = [t_raised EXCEPT ![t] = @ \cup {t_done[t] + 1}]
    /\ UNCHANGED <<t_sent, t_got>>
    /\ UNCHANGED <<bridge_vars, ui_vars, gw_vars, sup_vars, prov_vars>>

InitThreads ==
    /\ t_pc = [t \in Threads |-> "idle"]
    /\ t_lock = 0
    /\ t_sent = <<>>
    /\ t_read = 0
    /\ t_replies = <<>>
    /\ t_got = [t \in Threads |-> <<>>]
    /\ t_done = [t \in Threads |-> 0]
    /\ t_raised = [t \in Threads |-> {}]
    /\ BridgeIdle /\ UiIdle /\ GatewayIdle /\ SupervisorIdle /\ ProviderIdle

NextThreads ==
    \/ \E t \in Threads : Acquire(t)
    \/ \E t \in Threads : WriteRequest(t)
    \/ ChildServes
    \/ \E t \in Threads : ThreadRead(t)
    \/ \E t \in Threads : Release(t)
    \/ \E t \in Threads, why \in RaiseKinds : CallRaises(t, why)

SpecThreads == InitThreads /\ [][NextThreads]_vars

\* the threads and the child keep running: a step that can be taken is
\* taken in the end
FairThreads == SpecThreads /\ WF_vars(NextThreads)

(***************************************************************************)
(* SpecUiProvider: one UiTcpBlenderProvider over any sequence of calls and *)
(* any replies of the peer.                                                *)
(***************************************************************************)
InitUiProvider ==
    ProviderIdle /\ ThreadsIdle /\ BridgeIdle /\ UiIdle /\ GatewayIdle /\ SupervisorIdle

NextUiProvider ==
    \E tool \in UiTools, args \in UiArgs, reply \in UiReplies :
       UiProviderCall(tool, args, reply)

SpecUiProvider == InitUiProvider /\ [][NextUiProvider]_vars

(***************************************************************************)
(* Properties.                                                             *)
(***************************************************************************)
\* the number n of the id "Sn"
IdNum(id) == CHOOSE n \in 0..(MaxBridgeLines + 1) : SnapId(n) = id

\* C1: within one bridge process, after any sequence of requests, the
\* snapshot ids issued so far are S1, S2, ... in issuance order: their
\* numeric suffixes increase strictly and no id is issued twice, across
\* world.reset too.
C1_SnapshotIdsIncrease ==
    /\ \A i \in DOMAIN issued : issued[i] = SnapId(i)
    /\ \A i, j \in DOMAIN issued : i < j => IdNum(issued[i]) < IdNum(issued[j])

C1_Witness ==
    /\ Len(issued) >= 3
    /\ b_last.kind = "request"
    /\ b_last.req.tool = "world.reset"
    /\ b_last.out[1].snapshot_id = "S3"
    /\ issued[2] = "S2"

\* the last gateway line was a tools/call that reached the provider
GwDispatched ==
    /\ gw_last.line.kind = "object"
    /\ gw_last.line.method = "tools/call"
    /\ Dispatches(gw_last.line)

\* C2: when the provider raises while the Gateway dispatches a tools/call
\* for an allowed tool, the Gateway writes one result envelope whose text
\* payload has ok=false, an error_type and an error_message, and the loop
\* goes on: the session is not ended by the failed call.
C2_ProviderExceptionIsAnswered ==
    (GwDispatched /\ gw_last.ret = "raise") =>
       /\ Len(gw_last.out) = 1
       /\ gw_last.out[1].kind = "result"
       /\ gw_last.out[1].result = "content"
       /\ gw_last.out[1].id = gw_last.line.id
       /\ {"ok", "error_type", "error_message"} \subseteq gw_last.out[1].payload.keys
       /\ gw_last.out[1].payload.ok = FALSE
       /\ gw_last.out[1].payload.error_type = "RuntimeError"
       /\ gw_pc = "loop"

C2_Witness ==
    /\ Len(gw_out) = 2
    /\ gw_out[1].error_type = "RuntimeError"
    /\ gw_out[1].for = 1
    /\ gw_out[2].for = 2
    /\ gw_out[2].ok = "true"
    /\ GwDispatched

\* C3 (as claimed): the Gateway's loop stops only after a shutdown request
\* or at end of input; after every other line it reads the next line.
C3_LoopStopsOnlyOnShutdownOrEof ==
    gw_pc = "stopped" =>
       \/ gw_last.line.kind = "eof"
       \/ gw_last.line.kind = "object" /\ gw_last.line.method = "shutdown"

\* C4 (as claimed): every tools/call request, whatever its params, yields
\* exactly one response line, and that response carries an explicit ok flag
\* in its tool payload.
C4_EveryToolCallCarriesOk ==
    (gw_last.line.kind = "object" /\ gw_last.line.method = "tools/call") =>
       /\ Len(gw_last.out) = 1
       /\ gw_last.out[1].kind = "result"
       /\ "ok" \in gw_last.out[1].payload.keys

\* C5 (as claimed): each request line the Gateway reads (a line that is not
\* blank) elicits exactly one response line, except notifications/initialized,
\* which elicits none.
C5_OneResponsePerRequestLine ==
    gw_last.line.kind \notin {"", "eof", "blank"} =>
       Len(gw_last.out) =
          (IF gw_last.line.kind = "object" /\ gw_last.line.method = "notifications/initialized"
           THEN 0 ELSE 1)

\* C6: responses are written in the order the requests were read: each
\* envelope answers the line read last when it was written, carries that
\* line's id, and no line is answered after a later line was.
C6_ResponsesInRequestOrder ==
    /\ \A i \in DOMAIN gw_out :
          /\ gw_out[i].for \in DOMAIN gw_in
          /\ gw_out[i].id = gw_in[gw_out[i].for]
    /\ \A i, j \in DOMAIN gw_out : i < j => gw_out[i].for < gw_out[j].for
    /\ \A i \in DOMAIN gw_last.out :
          gw_out[Len(gw_out) - Len(gw_last.out) + i].for = Len(gw_in)

C6_Witness ==
    /\ Len(gw_in) = 3
    /\ Len(gw_out) = 2
    /\ gw_out[1].for = 1 /\ gw_out[1].id = "1"
    /\ gw_out[2].for = 3 /\ gw_out[2].id = "3" /\ gw_out[2].kind = "error"

\* the last bridge line was a world.mutate that passed the DSL-version check
MutatePassedVersionCheck ==
    /\ b_last.kind = "request"
    /\ b_last.req.tool = "world.mutate"
    /\ b_last.req.argsdict
    /\ b_last.req.batch_is_list
    /\ b_last.req.dsl_version = DSL_VERSION

\* C7 (as claimed): for a batch with the supported DSL version every item
\* is attempted, in order, whatever happened to the earlier items.
C7_EveryItemAttempted ==
    MutatePassedVersionCheck =>
       b_last.attempted = [i \in 1..Len(b_last.req.batch) |-> i - 1]

\* C8 (as claimed): for a batch of N ops with the supported DSL version,
\* applied + len(errors) = N, errors holds one entry per failing op in
\* increasing index order, and with exactly one failing op applied = N-1
\* and ok is false.
C8_AppliedPlusErrorsIsN ==
    MutatePassedVersionCheck =>
       LET r == b_last.out[1]
           N == Len(b_last.req.batch)
       IN  /\ {"applied", "errors"} \subseteq r.keys
           /\ r.applied + Len(r.errors) = N
           /\ \A i, j \in DOMAIN r.errors : i < j => r.errors[i].index < r.errors[j].index
           /\ \A i \in DOMAIN r.errors :
                 /\ r.errors[i].index \in 0..(N - 1)
                 /\ r.errors[i].op = b_last.req.batch[r.errors[i].index + 1].op
           /\ Len(r.errors) = 1 => (r.applied = N - 1 /\ ~r.ok)

\* C9 (as claimed): each world.mutate call that passes the DSL-version check
\* advances the snapshot counter by exactly one; the returned snapshot_id is
\* the new id, and the snapshot stored under it is the scene as it is after
\* the batch.
C9_MutateTakesOneSnapshot ==
    MutatePassedVersionCheck =>
       LET r == b_last.out[1]
       IN  /\ _snapshot_counter = b_last.pre + 1
           /\ "snapshot_id" \in r.keys
           /\ r.snapshot_id = SnapId(_snapshot_counter)
           /\ r.snapshot_id \in DOMAIN _snapshots
           /\ _snapshots[r.snapshot_id] =
                 world_observe_compact([objects |-> objects, collections |-> collections],
                                       r.snapshot_id)

\* C10: in every world.mutate result, of the bridge and of the socket peer,
\* ok is true if and only if the result carries an errors list that is
\* empty (a result without an errors list has ok false).
C10_OkIffNoErrors ==
    /\ (b_last.kind = "request" /\ b_last.req.tool = "world.mutate") =>
          \A i \in DOMAIN b_last.out :
             b_last.out[i].ok <=>
                ("errors" \in b_last.out[i].keys /\ b_last.out[i].errors = <<>>)
    /\ ui_last.method = "world_mutate" =>
          \A i \in DOMAIN ui_last.out :
             ui_last.out[i].ok <=>
                ("errors" \in ui_last.out[i].keys /\ ui_last.out[i].errors = <<>>)

C10_Witness ==
    /\ MutatePassedVersionCheck
    /\ Len(b_last.req.batch) = 2
    /\ b_last.out[1].applied = 1
    /\ Len(b_last.out[1].errors) = 1
    /\ b_last.out[1].ok = FALSE

\* C11 (as claimed): a world.mutate call whose dsl_version is not "1.0" is
\* rejected as a whole before any op runs, on the bridge and on the socket
\* peer: the scene is left unchanged, and the result has ok=false, applied=0
\* and one error describing the unsupported version.
C11_UnsupportedVersionRejected ==
    [][ /\ ( /\ b_lines' = b_lines + 1
             /\ b_last'.kind = "request"
             /\ b_last'.req.tool = "world.mutate"
             /\ b_last'.req.argsdict
             /\ b_last'.req.batch_is_list
             /\ b_last'.req.dsl_version # DSL_VERSION )
           => /\ objects' = objects
              /\ collections' = collections
              /\ b_last'.out[1].ok = FALSE
              /\ "applied" \in b_last'.out[1].keys
              /\ b_last'.out[1].applied = 0
              /\ \/ "error" \in b_last'.out[1].keys
                 \/ "errors" \in b_last'.out[1].keys /\ Len(b_last'.out[1].errors) = 1
        /\ ( /\ ui_last.method = ""
             /\ ui_last'.method = "world_mutate"
             /\ ui_last'.params.batch_iterable
             /\ ui_last'.params.dsl_version # "1.0" )
           => /\ ui_objects' = ui_objects
              /\ ui_last'.out[1].ok = FALSE
              /\ "applied" \in ui_last'.out[1].keys
              /\ ui_last'.out[1].applied = 0
              /\ "errors" \in ui_last'.out[1].keys
              /\ Len(ui_last'.out[1].errors) = 1
      ]_vars

\* the four lists a successful diff carries
DiffFields == {"objects_added", "objects_removed", "transforms_changed", "collections_changed"}

\* C12: world.observe_diff with a from or a to id that was never issued in
\* this bridge process writes an error result (ok=false, "unknown
\* snapshot_id") that carries none of the diff fields, changes nothing, and
\* the bridge loop goes on.
C12_UnknownIdIsAnError ==
    ( /\ b_last.kind = "request"
      /\ b_last.req.tool = "world.observe_diff"
      /\ b_last.req.argsdict
      /\ ~({b_last.req.from, b_last.req.to} \subseteq Range(issued)) )
    => /\ Len(b_last.out) = 1
       /\ b_last.out[1].ok = FALSE
       /\ b_last.out[1].error = "unknown snapshot_id"
       /\ "error" \in b_last.out[1].keys
       /\ b_last.out[1].keys \cap DiffFields = {}
       /\ b_last.raised = ""
       /\ _snapshot_counter = b_last.pre
       /\ b_pc = "loop"

C12_Witness ==
    /\ b_last.kind = "request"
    /\ b_last.req.tool = "world.observe_diff"
    /\ b_last.req.from = "S1"
    /\ b_last.req.to = "S3"
    /\ issued = <<"S1", "S2">>
    /\ b_last.out[1].ok = FALSE
    /\ b_pc = "loop"

\* the diff of two stored snapshots, as world_observe_diff computes it now
StoredDiff(f, t) == world_observe_diff(_snapshots, f, t)

\* C13: for every pair of stored snapshots (from, to), objects_added and
\* objects_removed of the pair are disjoint, and objects_added(from,to)
\* equals objects_removed(to,from).
C13_AddedRemovedDual ==
    \A f, t \in DOMAIN _snapshots :
       IdNum(f) <= IdNum(t) =>
          \A d \in {StoredDiff(f, t)}, e \in {StoredDiff(t, f)} :
             /\ d.ok /\ e.ok
             /\ Range(d.objects_added) \cap Range(d.objects_removed) = {}
             /\ Range(e.objects_added) \cap Range(e.objects_removed) = {}
             /\ d.objects_added = e.objects_removed
             /\ e.objects_added = d.objects_removed

C13_Witness ==
    /\ b_last.kind = "request"
    /\ b_last.req.tool = "world.observe_diff"
    /\ b_last.out[1].ok
    /\ b_last.out[1].objects_added = <<"A">>
    /\ b_last.out[1].objects_removed = <<"Seat">>
    /\ StoredDiff(b_last.req.to, b_last.req.from).objects_removed = <<"A">>

\* C14: diffing two stored snapshots with identical object contents (the
\* same id on both sides, or two ids with the same objects) yields empty
\* objects_added, objects_removed, transforms_changed and
\* collections_changed.
C14_IdenticalSnapshotsDiffEmpty ==
    \A f, t \in DOMAIN _snapshots :
       _snapshots[f].objects = _snapshots[t].objects =>
          \A d \in {StoredDiff(f, t)} :
             /\ d.ok
             /\ d.objects_added = <<>>
             /\ d.objects_removed = <<>>
             /\ d.transforms_changed = <<>>
             /\ d.collections_changed = <<>>

C14_Witness ==
    /\ b_last.kind = "request"
    /\ b_last.req.tool = "world.observe_diff"
    /\ b_last.req.from = "S1"
    /\ b_last.req.to = "S2"
    /\ b_last.out[1].ok
    /\ _snapshots["S1"].objects = _snapshots["S2"].objects
    /\ Len(_snapshots["S1"].objects) = 1
    /\ b_last.out[1].transforms_changed = <<>>

\* a step in which the bridge serves a world.observe_diff request
DiffStep ==
    /\ b_lines' = b_lines + 1
    /\ b_last'.kind = "request"
    /\ b_last'.req.tool = "world.observe_diff"

\* world.observe_diff changes neither the store, nor the counter, nor the scene
DiffIsPure ==
    DiffStep => UNCHANGED <<objects, collections, _snapshot_counter, _snapshots, issued>>

\* C15 (as claimed): world.observe_diff is pure, and any two calls with the
\* same (from, to) pair within one bridge process return identical results,
\* whatever calls happen between them.
C15_DiffRepeatableForAnyPair ==
    /\ [](\A x, y \in diff_log : (x.from = y.from /\ x.to = y.to) => x.out = y.out)
    /\ [][DiffIsPure]_vars

\* C15 (amended): world.observe_diff is pure, and any two calls with the same
\* (from, to) pair whose ids had both been issued when the calls were made
\* return identical results, whatever reset, observe or mutate calls happen
\* between them.
C15_DiffRepeatableForIssuedPair ==
    /\ [](\A x, y \in diff_log :
            (x.from = y.from /\ x.to = y.to /\ x.known /\ y.known) => x.out = y.out)
    /\ [][DiffIsPure]_vars

C15_Witness ==
    \E x, y \in diff_log :
       /\ x.from = "S1" /\ y.from = "S1"
       /\ x.to = "S2" /\ y.to = "S2"
       /\ x.known /\ y.known
       /\ x.pre = 2 /\ y.pre = 3
       /\ x.out = y.out
       /\ x.out.objects_added = <<"Seat">>
       /\ Len(objects) = 0

\* C16: every snapshot id returned to a caller by reset, observe or mutate
\* is in the snapshot store and resolvable by world_observe_diff, and the
\* snapshot stored under it keeps its content over every later step of the
\* same bridge process.
C16_IssuedIdsStayResolvable ==
    /\ [](\A i \in DOMAIN issued :
             /\ issued[i] \in DOMAIN _snapshots
             /\ _snapshots[issued[i]].snapshot_id = issued[i]
             /\ StoredDiff(issued[i], issued[i]).ok)
    /\ [](( /\ b_last.kind = "request"
            /\ b_last.raised = ""
            /\ b_last.req.tool \in {"world.reset", "world.observe", "world.mutate"}
            /\ "snapshot_id" \in b_last.out[1].keys )
          => b_last.out[1].snapshot_id \in Range(issued))
    /\ [][\A id \in DOMAIN _snapshots :
             id \in DOMAIN _snapshots' /\ _snapshots'[id] = _snapshots[id]]_vars

C16_Witness ==
    /\ b_last.kind = "request"
    /\ b_last.req.tool = "world.reset"
    /\ b_last.out[1].snapshot_id = "S3"
    /\ Len(_snapshots["S1"].objects) = 1
    /\ Len(_snapshots["S3"].objects) = 0
    /\ StoredDiff("S1", "S3").objects_removed = <<"Seat">>

\* C17 (as claimed): after the provider has replaced the child, a
\* world.observe_diff that names a snapshot id issued by a previous child
\* fails with the unknown-snapshot error, whatever calls the new child has
\* served; it never resolves to a snapshot of the new child.
C17_OldIdsAreUnknownAfterRestart ==
    ( /\ p_last.req.tool = "world.observe_diff"
      /\ p_last.raised = ""
      /\ {p_last.req.from, p_last.req.to} \cap prev_ids # {} )
    => /\ p_last.out[1].ok = FALSE
       /\ p_last.out[1].error = "unknown snapshot_id"

\* C18 (as claimed): on a fresh bridge the lines reset, observe, mutate (one
\* create op named Seat at [0,0,0.45]), observe, diff(S1,S3) give: the first
\* observe returns id S1 with 0 objects, the mutate returns S2 with applied=1
\* and no errors, the second observe returns S3 with 1 object, and the diff
\* reports objects_added = ["Seat"], objects_removed = [] and no transform or
\* collection change.
C18_ScenarioIds ==
    /\ sc_step = 2 => /\ b_last.out[1].snapshot_id = "S1"
                      /\ Len(b_last.out[1].objects) = 0
    /\ sc_step = 3 => /\ b_last.out[1].snapshot_id = "S2"
                      /\ b_last.out[1].applied = 1
                      /\ b_last.out[1].errors = <<>>
    /\ sc_step = 4 => /\ b_last.out[1].snapshot_id = "S3"
                      /\ Len(b_last.out[1].objects) = 1
    /\ sc_step = 5 => /\ b_last.out[1].ok
                      /\ b_last.out[1].objects_added = <<"Seat">>
                      /\ b_last.out[1].objects_removed = <<>>
                      /\ b_last.out[1].transforms_changed = <<>>
                      /\ b_last.out[1].collections_changed = <<>>

\* C19: with the socket provider, world_observe_diff returns ok=false with
\* error_type not_supported for every pair of ids, without opening a
\* connection to the peer and without changing the local snapshot counter.
C19_UiDiffNotSupported ==
    u_last.tool = "world_observe_diff" =>
       /\ u_last.raised = ""
       /\ u_last.ok = FALSE
       /\ u_last.error_type = "not_supported"
       /\ u_last.snapshot_id = ""
       /\ u_conns = u_last.conns
       /\ _snap_i = u_last.pre

C19_Witness ==
    /\ u_last.tool = "world_observe_diff"
    /\ u_last.args.from = "U1"
    /\ u_last.args.to = "U2"
    /\ u_ids = <<"U1", "U2">>
    /\ u_conns = 2
    /\ u_last.error_type = "not_supported"

\* the last call was world_reset, world_observe or world_mutate and returned
UiSnapshotCallReturned ==
    /\ u_last.tool \in {"world_reset", "world_observe", "world_mutate"}
    /\ u_last.raised = ""

\* the ids injected so far are U1, U2, ... in order, one per counter value
UiIdsIncrease ==
    /\ Len(u_ids) = _snap_i
    /\ \A i \in DOMAIN u_ids : u_ids[i] = UId(i)

\* a result that lacks snapshot_id gets the next U id
UiIdInjected ==
    (UiSnapshotCallReturned /\ u_last.reply.snapshot_id = "") =>
       /\ _snap_i = u_last.pre + 1
       /\ u_last.snapshot_id = UId(u_last.pre + 1)
       /\ "snapshot_id" \in u_last.keys

C21_InitializeEchoesOrDefault ==
    (gw_last.line.kind = "object" /\ gw_last.line.method = "initialize"
        /\ gw_last.line.params # "other")
    => /\ Len(gw_last.out) = 1
       /\ gw_last.out[1].kind = "result"
       /\ gw_last.out[1].protocolVersion =
             IF gw_last.line.params = "object" /\ gw_last.line.pv_kind = "str"
                   /\ gw_last.line.pv # ""
             THEN gw_last.line.pv ELSE DefaultProtocol

(***************************************************************************)
(* C22: shutdown is answered with exactly one response, whose result is    *)
(* null and whose id is the request's, and after it the gateway reads no   *)
(* further line and writes no further response; end of input stops the     *)
(* loop without any response being written.                                *)
(***************************************************************************)
GwShutdownLast == gw_last.line.kind = "object" /\ gw_last.line.method = "shutdown"

C22_ShutdownAndEofEndTheLoop ==
    /\ [](GwShutdownLast
            => /\ gw_pc = "stopped"
               /\ gw_last.out = <<ResultEnv(gw_last.line.id, "null", "", NoPayload)>>
               /\ gw_out # <<>>
               /\ gw_out[Len(gw_out)].for = Len(gw_in)
               /\ \A i \in 1..(Len(gw_out) - 1) : gw_out[i].for < Len(gw_in))
    /\ [](gw_last.line.kind = "eof" => gw_pc = "stopped" /\ gw_last.out = <<>>)
    /\ [][(GwShutdownLast \/ gw_last.line.kind = "eof")
            => UNCHANGED <<gw_in, gw_out, gw_last, gw_pc>>]_vars
    /\ [][gw_last'.line.kind = "eof" => gw_out' = gw_out /\ gw_in' = gw_in]_vars

C22_Witness ==
    /\ GwShutdownLast
    /\ gw_pc = "stopped"
    /\ Len(gw_in) = MaxGwLines
    /\ Len(gw_out) = MaxGwLines

(***************************************************************************)
(* C23: a tools/call that names a tool by its legacy dotted alias          *)
(* (world.mutate, ...) is handled exactly like the canonical name: it      *)
(* passes the allow-list and reaches the provider, so its payload is the   *)
(* provider's and never the unknown-tool payload.                          *)
(***************************************************************************)
tool_aliases ==
    [n \in {"world.observe", "world.reset", "world.mutate", "world.observe_diff"} |->
        CASE n = "world.observe" -> "world_observe"
          [] n = "world.reset" -> "world_reset"
          [] n = "world.mutate" -> "world_mutate"
          [] n = "world.observe_diff" -> "world_observe_diff"]

C23_AliasHandledLikeCanonical ==
    (gw_last.line.kind = "object" /\ gw_last.line.method = "tools/call"
        /\ gw_last.line.params = "object" /\ gw_last.line.name_kind = "str"
        /\ gw_last.line.name \in DOMAIN tool_aliases)
    => /\ tool_aliases[gw_last.line.name] \in allowed_tools
       /\ gw_last.ret # "none"
       /\ gw_last.out =
             <<ResultEnv(gw_last.line.id, "content", "",
                         ToolPayload(tool_aliases[gw_last.line.name], gw_last.ret))>>

(***************************************************************************)
(* C24: a protocol-level error (a line that is not valid JSON or not an    *)
(* envelope object, an unknown method, a tools/call naming an unknown      *)
(* tool) is answered with exactly one error response, with code -32601     *)
(* for an unknown method, and the loop goes on to the next line.           *)
(***************************************************************************)
GwKnownMethods ==
    {"initialize", "notifications/initialized", "shutdown", "resources/list",
     "prompts/list", "tools/list", "tools/call"}

GwProtocolError ==
    \/ gw_last.line.kind \in {"badjson", "nondict", "null"}
    \/ gw_last.line.kind = "object" /\ gw_last.line.method \notin GwKnownMethods
    \/ /\ gw_last.line.kind = "object" /\ gw_last.line.method = "tools/call"
       /\ gw_last.line.params = "object" /\ gw_last.line.name_kind = "str"
       /\ gw_last.line.name \notin allowed_tools

C24_ProtocolErrorAnsweredSessionOpen ==
    GwProtocolError
    => /\ gw_pc = "loop"
       /\ Len(gw_last.out) = 1
       /\ \/ gw_last.out[1].kind = "error"
          \/ gw_last.out[1].kind = "result" /\ ~gw_last.out[1].payload.ok
       /\ (gw_last.line.kind = "object" /\ gw_last.line.method \notin GwKnownMethods)
             => gw_last.out[1].kind = "error" /\ gw_last.out[1].code = -32601

(***************************************************************************)
(* C25: after the ready line the bridge writes exactly one line for every  *)
(* non-blank line it reads, whether the line is a valid request, names an  *)
(* unknown tool, is not valid JSON or makes its handler raise, and it      *)
(* writes none for a blank line or at end of input.                        *)
(***************************************************************************)
C25_OneLinePerNonBlankLine ==
    /\ b_last.kind \in {"request", "badjson", "nondict"} => Len(b_last.out) = 1
    /\ b_last.kind \in {"blank", "eof", "ready"} => b_last.out = <<>>

C25_Witness ==
    /\ b_last.kind = "request"
    /\ b_last.raised # ""
    /\ b_last.out = <<ErrorResp(b_last.raised)>>
    /\ b_lines >= 2

(***************************************************************************)
(* C27: a request is written to a child only if that child's first output  *)
(* line was read and accepted as the ready handshake; after a spawn whose  *)
(* handshake was rejected, no later call writes a request to that child.   *)
(***************************************************************************)
C27_WritesOnlyAfterAcceptedHandshake ==
    p_last.writes > 0 => p_last.target = "ready"

(***************************************************************************)
(* C28 (as claimed): when the write of a request fails, call kills the     *)
(* child, spawns a new one, re-runs the handshake and writes the request   *)
(* exactly once more; if that handshake or that write fails the call fails *)
(* with no further spawn or write; a call makes at most one spawn and at   *)
(* most two write attempts.                                                *)
(***************************************************************************)
WriteFailureHandled ==
    /\ p_last.failed = 0 => p_last.kills = 0 /\ p_last.respawns = 0 /\ p_last.writes <= 1
    /\ p_last.failed >= 1
       => /\ p_last.kills = 1
          /\ p_last.respawns = 1
          /\ p_last.failed = 1 /\ p_last.writes = 1 => p_last.raised = "RuntimeError"
          /\ p_last.failed = 2 => p_last.writes = 2 /\ p_last.raised = "BrokenPipeError"
          /\ p_last.failed = 1 /\ p_last.writes = 2 => p_last.reply # ""
    /\ p_last.writes <= 2
    /\ p_last.failed <= p_last.writes

C28_WriteFailureOneSpawnPerCall ==
    /\ WriteFailureHandled
    /\ p_last.spawns <= 1

(***************************************************************************)
(* C28 (amended): as above, but the bound on spawns is one spawn after a   *)
(* failed write; a call that finds its child ended spawns one before its   *)
(* first write as well, so a call makes at most two spawns.                *)
(***************************************************************************)
C28_WriteFailureOneRetryPerCall ==
    /\ WriteFailureHandled
    /\ p_last.respawns <= 1
    /\ p_last.spawns <= p_last.respawns + 1

C28_Witness ==
    /\ p_last.failed = 1
    /\ p_last.writes = 2
    /\ p_last.kills = 1
    /\ p_last.spawns = 2
    /\ p_last.raised = ""
    /\ p_last.out # <<>>
    /\ proc = "alive"

(***************************************************************************)
(* C29: when the reply read from the child is empty or does not decode,    *)
(* call restarts the child and retries the request once before it lets an  *)
(* error out.                                                              *)
(***************************************************************************)
C29_BadReplyRestartsAndRetries ==
    (p_last.reply \in {"empty", "garbage"} /\ p_last.failed = 0)
    => /\ p_last.kills = 1
       /\ p_last.respawns = 1
       /\ p_last.writes = 2

(***************************************************************************)
(* C30: when reading the reply yields no output, call returns no result:   *)
(* it raises an error that carries the child's exit status, and the        *)
(* gateway, whose provider raised, reports that call as failed.            *)
(***************************************************************************)
C30_NoOutputRaisesWithExitStatus ==
    p_last.reply = "empty"
    => /\ p_last.raised = "RuntimeError"
       /\ p_last.out = <<>>
       /\ p_last.exit = "status"
       /\ ~ToolPayload("world_observe", "raise").ok

(***************************************************************************)
(* C26: with any number of threads calling the provider concurrently, at   *)
(* most one caller at a time is between starting to write its request and  *)
(* finishing reading its reply, and that caller holds the lock; the pieces *)
(* of request lines never interleave in the pipe; every caller reads the   *)
(* reply to its own request.                                               *)
(***************************************************************************)
InFlight(t) == t_pc[t] \in {"writing", "written", "read"}

C31_ExeNotFoundFailsOnlyTheCall ==
    p_last.raised = "FileNotFoundError"
    => /\ gw_pc \in {"loop", "stopped"}
       /\ p_calls >= 1
       /\ gw_out # <<>>

(***************************************************************************)
(* C32: no child is spawned before the first provider call, so a session   *)
(* in which provider.call was never called has no child.                   *)
(***************************************************************************)
C32_NoChildBeforeFirstCall ==
    p_calls = 0 => proc = "none" /\ p_last.spawns = 0

(***************************************************************************)
(* C33: when the gateway's loop has ended, by shutdown or at end of input, *)
(* the child has been torn down: the provider references no running child. *)
(***************************************************************************)
C33_ChildTornDownAtLoopEnd ==
    gw_pc = "stopped" => proc \in {"none", "exited"}

(***************************************************************************)
(* C37: a tools/call for world_reset, world_observe, world_mutate or       *)
(* world_observe_diff that the subprocess provider hands to a ready child  *)
(* reaches the bridge under a tool name its dispatcher recognises, and is  *)
(* never answered with an unknown-tool error.                              *)
(***************************************************************************)
BridgeTools == {"world.reset", "world.observe", "world.mutate", "world.observe_diff"}

C37_DispatchedToolIsKnownToBridge ==
    ( /\ gw_last.line.kind = "object" /\ gw_last.line.method = "tools/call"
      /\ Dispatches(gw_last.line) /\ gw_last.line.name \in CallTools
      /\ p_last.raised = "" /\ p_last.target = "ready" )
    => /\ p_last.req.tool \in BridgeTools
       /\ p_last.out[1].error # "unknown tool " \o p_last.req.tool

(***************************************************************************)
(* C34: with the socket provider, a peer that closes the connection        *)
(* without sending a byte, or that sends a line that is not JSON, never    *)
(* makes a call raise: the call returns a result with ok=false, and for    *)
(* world_reset, world_observe and world_mutate, which return what _send    *)
(* returned, its error_type is empty_response or json_decode; such a       *)
(* result leaves the gateway's loop running.                               *)
(***************************************************************************)
UiBadReply == u_last.reply.kind \in {"empty", "badjson"}

C34_EmptyOrMalformedReplyIsAResult ==
    UiBadReply
    => /\ u_last.raised = ""
       /\ "ok" \in u_last.keys
       /\ ~u_last.ok
       /\ u_last.tool \in {"world_reset", "world_observe", "world_mutate"}
             => /\ u_last.error_type = IF u_last.reply.kind = "empty"
                                       THEN "empty_response" ELSE "json_decode"
                /\ {"error_type", "error_message"} \subseteq u_last.keys
       /\ _normalize_ok("ok_false").ok = FALSE
       /\ \A id \in {"None", "1"} :
             GwHandle([ObjLine("tools/call", id) EXCEPT !.params = "object",
                          !.name_kind = "str", !.name = "world_observe"],
                      "ok_false", DefaultProtocol, FALSE).pc = "loop"

C34_Witness ==
    /\ u_calls = 2
    /\ u_last.tool = "world_observe"
    /\ u_last.reply.kind = "badjson"
    /\ u_last.error_type = "json_decode"
    /\ ~u_last.ok

(***************************************************************************)
(* C35: a socket-provider call that fails, by raising or by returning an   *)
(* error result, leaves the provider's snapshot counter as it was before   *)
(* the call.                                                               *)
(***************************************************************************)
C35_FailedCallKeepsCounter ==
    (u_last.tool # "" /\ (u_last.raised # "" \/ ~u_last.ok))
    => _snap_i = u_last.pre

(***************************************************************************)
(* C34 (as claimed): every call whose reply is empty or not JSON returns a *)
(* result with ok=false and error_type empty_response or json_decode.      *)
(***************************************************************************)
C34_EmptyOrMalformedReplyHasErrorType ==
    UiBadReply
    => /\ u_last.raised = ""
       /\ ~u_last.ok
       /\ u_last.error_type = IF u_last.reply.kind = "empty"
                              THEN "empty_response" ELSE "json_decode"

(***************************************************************************)
(* C36: an object.set_transform op on an existing object (set_transform on *)
(* the socket peer) touches only those of location, rotation_euler and     *)
(* scale that are present in its args, and when it succeeds gives each of  *)
(* them the value in args; the fields absent from args, the object's name, *)
(* type and collections, every other object and the set of collections are *)
(* unchanged.  Checked on every batch of one such op, in any scene.        *)
(***************************************************************************)
TransformFields == {"location", "rotation_euler", "scale"}

\* objs2 is objs after a set_transform with args on the object at index i
OnlyPresentFieldsTouched(objs, objs2, i, args, ok) ==
    /\ Len(objs2) = Len(objs)
    /\ \A j \in DOMAIN objs : j # i => objs2[j] = objs[j]
    /\ objs2[i].name = objs[i].name
    /\ objs2[i].type = objs[i].type
    /\ objs2[i].cols = objs[i].cols
    /\ \A f \in TransformFields \ DOMAIN args : objs2[i][f] = objs[i][f]
    /\ ok => \A f \in TransformFields \cap DOMAIN args : objs2[i][f] = args[f]

C36_SetTransformTouchesOnlyPresentFields ==
    /\ [][ ( /\ b_lines' = b_lines + 1
             /\ b_last'.kind = "request"
             /\ b_last'.req.tool = "world.mutate"
             /\ b_last'.req.dsl_version = DSL_VERSION
             /\ b_last'.req.batch_is_list
             /\ Len(b_last'.req.batch) = 1
             /\ b_last'.req.batch[1].dict
             /\ b_last'.req.batch[1].argsdict
             /\ b_last'.req.batch[1].op = "object.set_transform"
             /\ Get(b_last'.req.batch[1].args, "name", "") \in ObjNames(objects) )
           => /\ collections' = collections
              /\ OnlyPresentFieldsTouched(
                    objects, objects',
                    _find_object(objects, b_last'.req.batch[1].args.name),
                    b_last'.req.batch[1].args,
                    b_last'.out[1].errors = <<>>) ]_vars
    /\ [][ ( /\ ui_last'.method = "world_mutate"
             /\ ui_last.method = ""
             /\ ui_last'.params.dsl_version = "1.0"
             /\ ui_last'.params.batch_iterable
             /\ Len(ui_last'.params.batch) = 1
             /\ ui_last'.params.batch[1].dict
             /\ ui_last'.params.batch[1].argsdict
             /\ ui_last'.params.batch[1].op = "set_transform"
             /\ Get(ui_last'.params.batch[1].args, "name", "") \in ObjNames(ui_objects) )
           => OnlyPresentFieldsTouched(
                 ui_objects, ui_objects',
                 _find_object(ui_objects, ui_last'.params.batch[1].args.name),
                 ui_last'.params.batch[1].args,
                 ui_last'.out[1].errors = <<>>) ]_vars

C36_Witness ==
    /\ MutatePassedVersionCheck
    /\ b_last.req.batch =
          <<Item("object.set_transform", [name |-> "A", location |-> <<1000004, 0, 16>>])>>
    /\ b_last.out[1].applied = 1
    /\ Len(objects) = 2
    /\ objects[1].name = "A"
    /\ objects[1].location = <<1000004, 0, 16>>
    /\ objects[1].scale = <<1000000, 1000000, 1000000>>
    /\ objects[2].cols = {"C"}

(***************************************************************************)
(* C40: a batch op that is recorded in errors leaves the scene exactly as  *)
(* it was before the op: objects, transforms, collections and memberships  *)
(* are unchanged.  Stated for every batch of one op.                       *)
(***************************************************************************)
C40_FailingOpLeavesSceneUnchanged ==
    [][ ( /\ b_lines' = b_lines + 1
          /\ b_last'.kind = "request"
          /\ b_last'.req.tool = "world.mutate"
          /\ b_last'.req.dsl_version = DSL_VERSION
          /\ b_last'.req.batch_is_list
          /\ Len(b_last'.req.batch) = 1
          /\ b_last'.req.batch[1].dict
          /\ b_last'.raised = ""
          /\ Len(b_last'.out[1].errors) = 1 )
        => /\ objects' = objects
           /\ collections' = collections ]_vars

(***************************************************************************)
(* C38 (as claimed): a call that begins with its child ended spawns a new  *)
(* child and writes the request only after that child's handshake was      *)
(* accepted; a call that begins with its child still running spawns no     *)
(* child; the provider never has more than one running child.              *)
(***************************************************************************)
ChildRunning(p) == p \in {"alive", "broken", "unready"}

EndedChildReplacedFirst ==
    p_last.start = "exited"
    => /\ p_last.spawns >= 1
       /\ p_last.writes > 0 => p_last.target = "ready"
       /\ (p_last.raised = "RuntimeError" /\ p_last.reply = "") => p_last.writes = p_last.failed

C38_RunningChildNeverReplaced ==
    /\ EndedChildReplacedFirst
    /\ ChildRunning(p_last.start) => p_last.spawns = 0
    /\ p_last.live <= 1

(***************************************************************************)
(* C38 (amended): as above, but a call that begins with its child still    *)
(* running spawns no child before it writes the request; it spawns one     *)
(* only after a write to the running child failed and close() killed that  *)
(* child, so the provider still never has more than one running child.     *)
(***************************************************************************)
C38_OneChildAtATime ==
    /\ EndedChildReplacedFirst
    /\ ChildRunning(p_last.start)
       => /\ p_last.spawns = p_last.respawns
          /\ p_last.respawns = p_last.kills
          /\ p_last.failed = 0 => p_last.spawns = 0
    /\ p_last.live <= 1

C38_Witness ==
    /\ p_calls >= 2
    /\ p_last.start = "exited"
    /\ p_last.spawns = 1
    /\ p_last.respawns = 0
    /\ p_last.writes = 1
    /\ p_last.target = "ready"
    /\ p_last.raised = ""
    /\ p_last.out # <<>>
    /\ p_last.live = 1
    /\ proc = "alive"

(***************************************************************************)
(* C39: whenever call ends by raising (rejected handshake on restart,      *)
(* failed retry write, no output, undecodable reply) the lock is released: *)
(* the lock is held only by a thread inside call, the step that raises     *)
(* leaves it free, and after a call has raised every thread that waits to  *)
(* make a call gets the lock in the end.                                   *)
(***************************************************************************)
InsideCall(t) == t_pc[t] \in {"locked", "writing", "written", "read"}

SomeCallRaised == \E t \in Threads : t_raised[t] # {}

WaitsToCall(t) == t_pc[t] = "idle" /\ t_done[t] < MaxThreadCalls

C39_RaisingCallReleasesLock ==
    /\ [](t_lock # 0 => InsideCall(t_lock))
    /\ [][ \A t \in Threads : t_raised'[t] # t_raised[t]
              => t_lock = t /\ t_lock' = 0 /\ ~InsideCall(t)' ]_vars
    /\ \A t \in Threads : (SomeCallRaised /\ WaitsToCall(t)) ~> (t_lock = t)

C39_Witness ==
    /\ t_raised[1] = {1}
    /\ t_raised[2] = {}
    /\ t_got[2] = <<[to |-> 2, n |-> 1]>>
    /\ t_got[1] = <<[to |-> 1, n |-> 2]>>
    /\ t_raised[3] = {1, 2}
    /\ t_lock = 0

====
